---- MODULE Spec2Model ----
(***************************************************************************)
(* Kir-Manager: machine-identity management for a desktop IDE.             *)
(*   - softreset/patch.go      Patch Engine over extension.js              *)
(*   - reset/reset_windows.go  hard reset of the registry MachineGuid      *)
(*   - backup (backup.go)      snapshot registry under <exe dir>/backups   *)
(* Files are modelled by their content; every operation is one action.     *)
(***************************************************************************)
EXTENDS Integers, Sequences, FiniteSets, TLC

VARIABLES
    goos,         \* runtime.GOOS
    extJS,        \* the target artifact extension.js: [exists, data]
    extBackup,    \* its sibling extension.js.kiro-manager-backup
    customId,     \* ~/.kiro/custom-machine-id: [exists, data]
    cacheDir,     \* TRUE when ~/.aws/sso/cache exists
    liveToken,    \* ~/.aws/sso/cache/kiro-auth-token.json: [exists, data]
    machineGuid,  \* HKLM\SOFTWARE\Microsoft\Cryptography\MachineGuid
    idReadable,   \* FALSE when the OS query for the raw identifier fails
    backups,      \* <exe dir>/backups: entry per name
    rootDir,      \* <exe dir>/backups exists
    seen,         \* history: what the snapshots were made from
    pre,          \* history: the file system before the last operation
    last,         \* history: the last operation, its inputs, error and result
    prev,         \* history: the Patch Engine operation before the last one
    procs         \* the concurrent invocations of apply(): position and locals

vars == <<goos, extJS, extBackup, customId, cacheDir, liveToken, machineGuid,
          idReadable, backups, rootDir, seen, pre, last, prev, procs>>

fsVars == <<extJS, extBackup, customId, cacheDir, liveToken, machineGuid, backups, rootDir>>

(***************************************************************************)
(* Bounds of the model.                                                    *)
(***************************************************************************)
MaxLen == 3        \* chunks of an initial artifact
MaxBakLen == 1     \* chunks of an initial sibling backup

(***************************************************************************)
(* Files.                                                                  *)
(***************************************************************************)
NoFile == [exists |-> FALSE, data |-> <<>>]
File(d) == [exists |-> TRUE, data |-> d]

RECURSIVE SeqsUpTo(_, _)
SeqsUpTo(S, n) ==
    IF n = 0 THEN {<<>>}
    ELSE LET shorter == SeqsUpTo(S, n - 1)
         IN  shorter \cup {Append(s, c) : s \in {t \in shorter : Len(t) = n - 1}, c \in S}

(***************************************************************************)
(* softreset/patch.go: the artifact is a sequence of chunks.  A chunk is   *)
(* one of the byte-exact markers, a newline, or filler bytes that contain  *)
(* no part of a marker; byte offsets are kept exactly.                     *)
(***************************************************************************)
PatchMarker == "V3"          \* "/* KIRO_MANAGER_PATCH_V3 */"
OldPatchMarker == "V1"       \* "/* KIRO_MANAGER_PATCH_V1 */"
OldPatchMarkerV2 == "V2"     \* "/* KIRO_MANAGER_PATCH_V2 */"
PatchEndMarker == "END"      \* "/* END_KIRO_MANAGER_PATCH */"
Newline == "NL"              \* '\n'

MarkerLen == 27              \* len of each start marker
EndMarkerLen == 28           \* len(PatchEndMarker)
PatchCodeLen == 3624         \* len(patchCode) in bytes
PrefixLen == 1024            \* buf := make([]byte, 1024)

StartMarkers == {PatchMarker, OldPatchMarker, OldPatchMarkerV2}
\* the payload body between "<start marker>\n" and the end marker
BodyLen == PatchCodeLen - MarkerLen - 1 - EndMarkerLen - 1
\* filler that ends exactly where a marker still fits into the prefix
PadLen == PrefixLen - MarkerLen

ByteLen(c) ==
    CASE c \in StartMarkers -> MarkerLen
      [] c = PatchEndMarker -> EndMarkerLen
      [] c = Newline -> 1
      [] c = "x" -> 1
      [] c = "PAD" -> PadLen
      [] c = "BODY" -> BodyLen

patchCode == <<PatchMarker, Newline, "BODY", PatchEndMarker, Newline>>

RECURSIVE Offset(_, _)
\* byte offset of chunk i of content s
Offset(s, i) == IF i <= 1 THEN 0 ELSE Offset(s, i - 1) + ByteLen(s[i - 1])

\* strings.Contains(string(buf[:n]), marker) for the first PrefixLen bytes
PrefixContains(s, marker) ==
    \E i \in DOMAIN s : s[i] = marker /\ Offset(s, i) + ByteLen(marker) <= PrefixLen

\* n, _ := file.Read(buf); buf[:n]: the chunks that begin inside the first
\* PrefixLen bytes, each with the number of its bytes that were read
ReadPrefix(s) ==
    LET k == Cardinality({j \in DOMAIN s : Offset(s, j) < PrefixLen})
    IN  [i \in 1..k |->
            LET left == PrefixLen - Offset(s, i)
            IN  <<s[i], IF ByteLen(s[i]) <= left THEN ByteLen(s[i]) ELSE left>>]

\* strings.Index(contentStr, marker): chunk index of the first occurrence, 0 if none
Index(s, marker) ==
    IF \E i \in DOMAIN s : s[i] = marker
    THEN CHOOSE i \in DOMAIN s : s[i] = marker /\ \A j \in 1..(i - 1) : s[j] # marker
    ELSE 0

Count(s, marker) == Cardinality({i \in DOMAIN s : s[i] = marker})

\* the state the Patch Engine works on
PatchFS(ext, bak) == [ext |-> ext, bak |-> bak]

\* GetExtensionJSPath: os.Stat(extensionPath) fails -> ErrExtensionNotFound
GetExtensionJSPath(fs) == IF fs.ext.exists THEN "nil" ELSE "ErrExtensionNotFound"

\* mutant: the marker is looked for in the whole file
IsPatchedWholeFile(fs) ==
    IF GetExtensionJSPath(fs) # "nil"
    THEN [val |-> FALSE, err |-> GetExtensionJSPath(fs)]
    ELSE [val |-> \E i \in DOMAIN fs.ext.data : fs.ext.data[i] = PatchMarker, err |-> "nil"]

\* mutant: the current marker is never recognised
IsPatchedNever(fs) == [val |-> FALSE, err |-> GetExtensionJSPath(fs)]

IsPatched(fs) ==
    IF GetExtensionJSPath(fs) # "nil"
    THEN [val |-> FALSE, err |-> GetExtensionJSPath(fs)]
    ELSE [val |-> PrefixContains(fs.ext.data, PatchMarker), err |-> "nil"]

\* mutant: only the V1 marker counts as stale
IsOldPatchedV1Only(fs) ==
    IF GetExtensionJSPath(fs) # "nil"
    THEN [val |-> FALSE, err |-> GetExtensionJSPath(fs)]
    ELSE [val |-> PrefixContains(fs.ext.data, OldPatchMarker)
                  /\ ~PrefixContains(fs.ext.data, PatchMarker), err |-> "nil"]

IsOldPatched(fs) ==
    IF GetExtensionJSPath(fs) # "nil"
    THEN [val |-> FALSE, err |-> GetExtensionJSPath(fs)]
    ELSE LET content == fs.ext.data
             hasOldPatch == PrefixContains(content, OldPatchMarker)
                            \/ PrefixContains(content, OldPatchMarkerV2)
             hasCurrentPatch == PrefixContains(content, PatchMarker)
         IN  [val |-> hasOldPatch /\ ~hasCurrentPatch, err |-> "nil"]

\* mutant: the sibling is copied over even when it exists
BackupExtensionJSOverwrite(fs) ==
    IF GetExtensionJSPath(fs) # "nil" THEN [fs |-> fs, err |-> GetExtensionJSPath(fs)]
    ELSE [fs |-> [fs EXCEPT !.bak = File(fs.ext.data)], err |-> "nil"]

\* BackupExtensionJS: copy the artifact to the sibling unless the sibling exists
BackupExtensionJS(fs) ==
    IF GetExtensionJSPath(fs) # "nil" THEN [fs |-> fs, err |-> GetExtensionJSPath(fs)]
    ELSE IF fs.bak.exists THEN [fs |-> fs, err |-> "nil"]
    ELSE [fs |-> [fs EXCEPT !.bak = File(fs.ext.data)], err |-> "nil"]

\* mutant: the sibling is copied back without looking for the artifact
RestoreExtensionJSNoStat(fs) ==
    IF ~fs.bak.exists THEN [fs |-> fs, err |-> "ErrBackupNotFound"]
    ELSE [fs |-> [ext |-> File(fs.bak.data), bak |-> NoFile], err |-> "nil"]

\* mutant: the sibling is kept after the restore
RestoreExtensionJSKeep(fs) ==
    IF GetExtensionJSPath(fs) # "nil" THEN [fs |-> fs, err |-> GetExtensionJSPath(fs)]
    ELSE IF ~fs.bak.exists THEN [fs |-> fs, err |-> "ErrBackupNotFound"]
    ELSE [fs |-> [fs EXCEPT !.ext = File(fs.bak.data)], err |-> "nil"]

\* RestoreExtensionJS: copy the sibling over the artifact, then remove the sibling
RestoreExtensionJS(fs) ==
    IF GetExtensionJSPath(fs) # "nil" THEN [fs |-> fs, err |-> GetExtensionJSPath(fs)]
    ELSE IF ~fs.bak.exists THEN [fs |-> fs, err |-> "ErrBackupNotFound"]
    ELSE [fs |-> [ext |-> File(fs.bak.data), bak |-> NoFile], err |-> "nil"]

\* mutant: the payload is cut out without looking for a start marker first
UnpatchExtensionJSNoCheck(fs) ==
    IF GetExtensionJSPath(fs) # "nil" THEN [fs |-> fs, err |-> GetExtensionJSPath(fs)]
    ELSE LET contentStr == fs.ext.data
             endIdx == Index(contentStr, PatchEndMarker)
         IN  IF endIdx = 0 THEN RestoreExtensionJS(fs)
             ELSE LET cut == IF endIdx < Len(contentStr) /\ contentStr[endIdx + 1] = Newline
                             THEN endIdx + 1 ELSE endIdx
                      newContent == SubSeq(contentStr, cut + 1, Len(contentStr))
                  IN  [fs |-> [fs EXCEPT !.ext = File(newContent)], err |-> "nil"]

\* mutant: the newline after the end marker is left in place
UnpatchExtensionJSKeepNewline(fs) ==
    IF GetExtensionJSPath(fs) # "nil" THEN [fs |-> fs, err |-> GetExtensionJSPath(fs)]
    ELSE IF ~IsPatched(fs).val /\ ~IsOldPatched(fs).val THEN [fs |-> fs, err |-> "nil"]
    ELSE LET contentStr == fs.ext.data
             endIdx == Index(contentStr, PatchEndMarker)
         IN  IF endIdx = 0 THEN RestoreExtensionJS(fs)
             ELSE [fs |-> [fs EXCEPT !.ext =
                              File(SubSeq(contentStr, endIdx + 1, Len(contentStr)))],
                   err |-> "nil"]

\* mutant: the sibling is removed after the payload has been cut out
UnpatchExtensionJSDropBackup(fs) ==
    IF GetExtensionJSPath(fs) # "nil" THEN [fs |-> fs, err |-> GetExtensionJSPath(fs)]
    ELSE IF ~IsPatched(fs).val /\ ~IsOldPatched(fs).val THEN [fs |-> fs, err |-> "nil"]
    ELSE LET contentStr == fs.ext.data
             endIdx == Index(contentStr, PatchEndMarker)
         IN  IF endIdx = 0 THEN RestoreExtensionJS(fs)
             ELSE LET cut == IF endIdx < Len(contentStr) /\ contentStr[endIdx + 1] = Newline
                             THEN endIdx + 1 ELSE endIdx
                      newContent == SubSeq(contentStr, cut + 1, Len(contentStr))
                  IN  [fs |-> [ext |-> File(newContent), bak |-> NoFile], err |-> "nil"]

\* UnpatchExtensionJS
UnpatchExtensionJS(fs) ==
    IF GetExtensionJSPath(fs) # "nil" THEN [fs |-> fs, err |-> GetExtensionJSPath(fs)]
    ELSE IF ~IsPatched(fs).val /\ ~IsOldPatched(fs).val THEN [fs |-> fs, err |-> "nil"]
    ELSE LET contentStr == fs.ext.data
             endIdx == Index(contentStr, PatchEndMarker)
         IN  IF endIdx = 0 THEN RestoreExtensionJS(fs)
             ELSE LET cut == IF endIdx < Len(contentStr) /\ contentStr[endIdx + 1] = Newline
                             THEN endIdx + 1 ELSE endIdx
                      newContent == SubSeq(contentStr, cut + 1, Len(contentStr))
                  IN  [fs |-> [fs EXCEPT !.ext = File(newContent)], err |-> "nil"]

\* mutant: the sibling backup is made after the payload has been written
PatchExtensionJSBackupLast(fs) ==
    IF GetExtensionJSPath(fs) # "nil" THEN [fs |-> fs, err |-> GetExtensionJSPath(fs)]
    ELSE IF IsPatched(fs).val THEN [fs |-> fs, err |-> "nil"]
    ELSE LET un == IF IsOldPatched(fs).val THEN UnpatchExtensionJS(fs)
                   ELSE [fs |-> fs, err |-> "nil"]
         IN  IF un.err # "nil" THEN un
             ELSE LET newContent == patchCode \o un.fs.ext.data
                  IN  BackupExtensionJS([un.fs EXCEPT !.ext = File(newContent)])

\* PatchExtensionJS
PatchExtensionJS(fs) ==
    IF GetExtensionJSPath(fs) # "nil" THEN [fs |-> fs, err |-> GetExtensionJSPath(fs)]
    ELSE IF IsPatched(fs).val THEN [fs |-> fs, err |-> "nil"]
    ELSE LET un == IF IsOldPatched(fs).val THEN UnpatchExtensionJS(fs)
                   ELSE [fs |-> fs, err |-> "nil"]
         IN  IF un.err # "nil" THEN un
             ELSE LET bk == BackupExtensionJS(un.fs)
                      content == bk.fs.ext.data
                      newContent == patchCode \o content
                  IN  [fs |-> [bk.fs EXCEPT !.ext = File(newContent)], err |-> "nil"]

\* mutant: the check for the current marker is left out
PatchCheckNoMarker(fs) ==
    IF GetExtensionJSPath(fs) # "nil"
    THEN [fs |-> fs, err |-> GetExtensionJSPath(fs), go |-> FALSE]
    ELSE LET un == IF IsOldPatched(fs).val THEN UnpatchExtensionJS(fs)
                   ELSE [fs |-> fs, err |-> "nil"]
         IN  [fs |-> un.fs, err |-> un.err, go |-> un.err = "nil"]

\* PatchExtensionJS in the steps other invocations can run between.
\* PatchCheck: GetExtensionJSPath, IsPatched, IsOldPatched and the removal of
\* a stale payload; go tells whether the invocation continues
PatchCheck(fs) ==
    IF GetExtensionJSPath(fs) # "nil"
    THEN [fs |-> fs, err |-> GetExtensionJSPath(fs), go |-> FALSE]
    ELSE IF IsPatched(fs).val THEN [fs |-> fs, err |-> "nil", go |-> FALSE]
    ELSE LET un == IF IsOldPatched(fs).val THEN UnpatchExtensionJS(fs)
                   ELSE [fs |-> fs, err |-> "nil"]
         IN  [fs |-> un.fs, err |-> un.err, go |-> un.err = "nil"]
\* content, err := os.ReadFile(extPath)
PatchRead(fs) ==
    IF fs.ext.exists THEN [content |-> fs.ext.data, err |-> "nil"]
    ELSE [content |-> <<>>, err |-> "read failed"]
\* os.WriteFile(extPath, []byte(patchCode + string(content)), 0644)
PatchWrite(fs, content) == [fs EXCEPT !.ext = File(patchCode \o content)]

(***************************************************************************)
(* Identifiers.  An identifier is a base value and whether its letters are *)
(* written in upper case; strings.ToLower and strings.EqualFold work on    *)
(* that.  NoId is the empty string.                                        *)
(***************************************************************************)
MaxIds == 2        \* distinct identifier values

IdNums == 1..MaxIds
Ids == [n : IdNums, up : BOOLEAN]
NoId == [n |-> 0, up |-> FALSE]
ToLower(id) == [id EXCEPT !.up = FALSE]
EqualFold(a, b) == ToLower(a) = ToLower(b)

\* machineid.GetRawMachineId: platform dispatch, lower-cased
getWindowsMachineId(guid, readable) ==
    IF readable THEN [id |-> ToLower(guid), err |-> "nil"]
    ELSE [id |-> NoId, err |-> "read machine id failed"]

getLinuxMachineId(guid, readable) ==
    IF readable THEN [id |-> ToLower(guid), err |-> "nil"]
    ELSE [id |-> NoId, err |-> "machine-id not found"]

GetRawMachineId(os, guid, readable) ==
    CASE os = "windows" -> getWindowsMachineId(guid, readable)
      [] os = "linux" -> getLinuxMachineId(guid, readable)
      [] OTHER -> [id |-> NoId, err |-> "unsupported platform"]

(***************************************************************************)
(* JSON token documents.  A token is an object over TokenKeys; a member is *)
(* absent, a string, a non-negative integer hi * 2^30 + lo, or a nested    *)
(* object over SubKeys.                                                    *)
(***************************************************************************)
TokenKeys == {"accessToken", "expiresAt", "refreshToken", "customField2", "nestedObject"}
SubKeys == {"key1", "key2"}

Two30 == 2 ^ 30
Two23 == 2 ^ 23      \* hi >= 2^23 means the integer is >= 2^53

Absent == [kind |-> "absent", s |-> "", hi |-> 0, lo |-> 0]
Str(s) == [kind |-> "str", s |-> s, hi |-> 0, lo |-> 0]
Num(hi, lo) == [kind |-> "num", s |-> "", hi |-> hi, lo |-> lo]

NoSub == [k \in SubKeys |-> Absent]
Leaf(v) == [kind |-> v.kind, s |-> v.s, hi |-> v.hi, lo |-> v.lo, sub |-> NoSub]
Obj(sub) == [kind |-> "obj", s |-> "", hi |-> 0, lo |-> 0, sub |-> sub]

EmptyObject == [k \in TokenKeys |-> Leaf(Absent)]

\* the bytes of a token file: the object they encode and how it is laid out
\* ("ide": as the IDE wrote it, "indent": json.MarshalIndent's output,
\* "invalid": bytes that are no JSON object)
TokenDoc(layout, obj) == [layout |-> layout, obj |-> obj]

\* a JSON number decoded into interface{} becomes a float64: integers below
\* 2^53 are exact, those in [2^53, 2^54) are rounded to the nearest even
\* multiple of 2 (round half to even)
Float64(v) ==
    IF v.kind # "num" \/ v.hi < Two23 THEN v
    ELSE CASE v.lo % 2 = 0 -> v
           [] v.lo % 4 = 1 -> [v EXCEPT !.lo = v.lo - 1]
           [] OTHER -> IF v.lo + 1 = Two30 THEN [v EXCEPT !.hi = v.hi + 1, !.lo = 0]
                       ELSE [v EXCEPT !.lo = v.lo + 1]

\* json.Unmarshal(data, &tokenMap) with tokenMap a map[string]interface{}
Unmarshal(doc) ==
    IF doc.layout = "invalid" THEN [map |-> EmptyObject, err |-> "invalid character"]
    ELSE [map |-> [k \in TokenKeys |->
                    IF doc.obj[k].kind = "obj"
                    THEN [doc.obj[k] EXCEPT
                             !.sub = [j \in SubKeys |-> Float64(doc.obj[k].sub[j])]]
                    ELSE [Float64(doc.obj[k]) EXCEPT !.sub = doc.obj[k].sub]],
          err |-> "nil"]

\* json.MarshalIndent(tokenMap, "", "  "): sorted keys, two-space indent; a
\* float64 with an integer value below 1e21 is written in plain digits
MarshalIndent(tokenMap) == TokenDoc("indent", tokenMap)

\* writeBackupTokenToPath(tokenPath, accessToken, expiresAt) on a token file
writeBackupTokenToPath(file, accessToken, expiresAt) ==
    IF ~file.exists THEN [file |-> file, err |-> "read failed"]
    ELSE LET um == Unmarshal(file.data)
             updated == [um.map EXCEPT !["accessToken"] = Leaf(Str(accessToken)),
                                       !["expiresAt"] = Leaf(Str(expiresAt))]
         IN  IF um.err # "nil" THEN [file |-> file, err |-> um.err]
             ELSE [file |-> File(MarshalIndent(updated)), err |-> "nil"]

(***************************************************************************)
(* backup: the snapshot store.  An entry of the store root is absent, a    *)
(* plain file, or a directory holding kiro-auth-token.json and             *)
(* machine-id.json.                                                        *)
(***************************************************************************)
OriginalBackupName == "original"
Names == {"", "work", OriginalBackupName}
EntryNames == Names \ {""}

\* machine-id.json: json.MarshalIndent(MachineIDBackup{...})
\* BackupTime: time.Now().Format(time.RFC3339), written "rfc3339"
MachineIDBackup(id) == [valid |-> TRUE, machineId |-> id, backupTime |-> "rfc3339"]
\* a machine-id.json that json.Unmarshal rejects
Unparsable == [valid |-> FALSE, machineId |-> NoId, backupTime |-> ""]

NoMid == [exists |-> FALSE, data |-> Unparsable]
NoToken == [exists |-> FALSE, data |-> TokenDoc("none", EmptyObject)]

NoEntry == [kind |-> "none", token |-> NoToken, mid |-> NoMid]
PlainFile == [kind |-> "file", token |-> NoToken, mid |-> NoMid]
Dir(token, mid) == [kind |-> "dir", token |-> token, mid |-> mid]

\* BackupExists: os.Stat(backupPath) succeeds and is a directory
BackupExists(b, name) == name # "" /\ b[name].kind = "dir"

\* os.MkdirAll(backupPath): fails when a non-directory is in the way
MkdirAll(b, name) ==
    CASE b[name].kind = "dir" -> [b |-> b, err |-> "nil"]
      [] b[name].kind = "file" -> [b |-> b, err |-> "failed to create backup directory"]
      [] OTHER -> [b |-> [b EXCEPT ![name] = Dir(NoToken, NoMid)], err |-> "nil"]

\* mutant: the clean-up after a failed step is missing
RemoveAllNothing(b, name) == b

\* os.RemoveAll(backupPath)
RemoveAll(b, name) == [b EXCEPT ![name] = NoEntry]

CreateFaults == {"none", "copy", "write"}

\* mutant: the token requirement is checked before the name is looked up
CreateBackupTokenFirst(b, name, tok, raw, fault) ==
    IF name = "" THEN [b |-> b, err |-> "ErrInvalidBackupName"]
    ELSE IF ~tok.exists THEN [b |-> b, err |-> "ErrNoTokenToBackup"]
    ELSE IF BackupExists(b, name) THEN [b |-> b, err |-> "ErrBackupExists"]
    ELSE IF fault # "none" \/ raw.err # "nil" \/ b[name].kind = "file"
         THEN [b |-> b, err |-> "failed"]
    ELSE [b |-> [b EXCEPT ![name] = Dir(File(tok.data), File(MachineIDBackup(raw.id)))],
          err |-> "nil"]

\* mutant: the token half is created but the live token is not copied into it
CreateBackupEmptyToken(b, name, tok, raw, fault) ==
    IF name = "" THEN [b |-> b, err |-> "ErrInvalidBackupName"]
    ELSE IF BackupExists(b, name) THEN [b |-> b, err |-> "ErrBackupExists"]
    ELSE IF ~tok.exists THEN [b |-> b, err |-> "ErrNoTokenToBackup"]
    ELSE IF fault # "none" \/ raw.err # "nil" \/ b[name].kind = "file"
         THEN [b |-> b, err |-> "failed"]
    ELSE [b |-> [b EXCEPT ![name] = Dir(File(TokenDoc("invalid", EmptyObject)),
                                        File(MachineIDBackup(raw.id)))],
          err |-> "nil"]

\* CreateBackup(name); tok is the live token file, raw the result of
\* GetRawMachineId, fault the call that fails (copyFile or os.WriteFile)
CreateBackup(b, name, tok, raw, fault) ==
    IF name = "" THEN [b |-> b, err |-> "ErrInvalidBackupName"]
    ELSE IF BackupExists(b, name) THEN [b |-> b, err |-> "ErrBackupExists"]
    ELSE LET mk == MkdirAll(b, name)
         IN  IF mk.err # "nil" THEN mk
             ELSE IF ~tok.exists
                  THEN [b |-> RemoveAll(mk.b, name), err |-> "ErrNoTokenToBackup"]
             ELSE IF fault = "copy"
                  THEN [b |-> RemoveAll(mk.b, name), err |-> "failed to backup token"]
             ELSE IF raw.err # "nil"
                  THEN [b |-> RemoveAll([mk.b EXCEPT ![name].token = File(tok.data)], name),
                        err |-> "failed to get machine id"]
             ELSE IF fault = "write"
                  THEN [b |-> RemoveAll([mk.b EXCEPT ![name].token = File(tok.data)], name),
                        err |-> "failed to write machine id"]
             ELSE [b |-> [mk.b EXCEPT ![name] =
                              Dir(File(tok.data), File(MachineIDBackup(raw.id)))],
                   err |-> "nil"]

\* CreateMachineIDOnlyBackup(name)
CreateMachineIDOnlyBackup(b, name, raw, fault) ==
    IF name = "" THEN [b |-> b, err |-> "ErrInvalidBackupName"]
    ELSE IF BackupExists(b, name) THEN [b |-> b, err |-> "ErrBackupExists"]
    ELSE LET mk == MkdirAll(b, name)
         IN  IF mk.err # "nil" THEN mk
             ELSE IF raw.err # "nil"
                  THEN [b |-> RemoveAll(mk.b, name), err |-> "failed to get machine id"]
             ELSE IF fault = "write"
                  THEN [b |-> RemoveAll(mk.b, name), err |-> "failed to write machine id"]
             ELSE [b |-> [mk.b EXCEPT ![name] = Dir(NoToken, File(MachineIDBackup(raw.id)))],
                   err |-> "nil"]

\* ListBackups: the names of the directory entries of the root
ListBackups(b) == {n \in EntryNames : b[n].kind = "dir"}

\* mutant: a machine-id.json that does not parse is returned as an empty record
ReadBackupMachineIDLenient(b, name) ==
    IF name = "" THEN [mid |-> Unparsable, err |-> "ErrInvalidBackupName"]
    ELSE IF ~BackupExists(b, name) THEN [mid |-> Unparsable, err |-> "ErrBackupNotFound"]
    ELSE IF ~b[name].mid.exists
         THEN [mid |-> Unparsable, err |-> "failed to read machine id file"]
    ELSE [mid |-> b[name].mid.data, err |-> "nil"]

\* ReadBackupMachineID(name)
ReadBackupMachineID(b, name) ==
    IF name = "" THEN [mid |-> Unparsable, err |-> "ErrInvalidBackupName"]
    ELSE IF ~BackupExists(b, name) THEN [mid |-> Unparsable, err |-> "ErrBackupNotFound"]
    ELSE IF ~b[name].mid.exists
         THEN [mid |-> Unparsable, err |-> "failed to read machine id file"]
    ELSE IF ~b[name].mid.data.valid
         THEN [mid |-> Unparsable, err |-> "failed to parse machine id file"]
    ELSE [mid |-> b[name].mid.data, err |-> "nil"]

\* mutant: a snapshot that does not exist is made to hold the new token
WriteBackupTokenCreate(b, name, accessToken, expiresAt) ==
    IF name = "" THEN [b |-> b, err |-> "ErrInvalidBackupName"]
    ELSE IF ~BackupExists(b, name)
         THEN [b |-> [b EXCEPT ![name] =
                         Dir(File(MarshalIndent(
                                 [EmptyObject EXCEPT !["accessToken"] = Leaf(Str(accessToken)),
                                                     !["expiresAt"] = Leaf(Str(expiresAt))])),
                             NoMid)],
               err |-> "nil"]
    ELSE LET r == writeBackupTokenToPath(b[name].token, accessToken, expiresAt)
         IN  [b |-> [b EXCEPT ![name].token = r.file], err |-> r.err]

\* WriteBackupToken(name, accessToken, expiresAt): the name is validated and
\* looked up as in the other operations of the registry, then
\* writeBackupTokenToPath works on the snapshot's kiro-auth-token.json
WriteBackupToken(b, name, accessToken, expiresAt) ==
    IF name = "" THEN [b |-> b, err |-> "ErrInvalidBackupName"]
    ELSE IF ~BackupExists(b, name) THEN [b |-> b, err |-> "ErrBackupNotFound"]
    ELSE LET r == writeBackupTokenToPath(b[name].token, accessToken, expiresAt)
         IN  [b |-> [b EXCEPT ![name].token = r.file], err |-> r.err]

\* the members of awssso.KiroAuthToken the model follows; all are strings
StructKeys == {"accessToken", "expiresAt", "refreshToken"}
NoAuthToken == [k \in StructKeys |-> ""]

\* json.Unmarshal(data, &token) with token an awssso.KiroAuthToken: unknown
\* members are skipped, a number or an object in a string member is an error
UnmarshalToken(doc) ==
    IF doc.layout = "invalid" THEN [token |-> NoAuthToken, err |-> "invalid character"]
    ELSE IF \E k \in StructKeys : doc.obj[k].kind \in {"num", "obj"}
         THEN [token |-> NoAuthToken, err |-> "cannot unmarshal"]
    ELSE [token |-> [k \in StructKeys |-> doc.obj[k].s], err |-> "nil"]

\* ReadBackupToken(name)
ReadBackupToken(b, name) ==
    IF name = "" THEN [token |-> NoAuthToken, err |-> "ErrInvalidBackupName"]
    ELSE IF ~BackupExists(b, name) THEN [token |-> NoAuthToken, err |-> "ErrBackupNotFound"]
    ELSE IF ~b[name].token.exists
         THEN [token |-> NoAuthToken, err |-> "failed to read token file"]
    ELSE IF UnmarshalToken(b[name].token.data).err # "nil"
         THEN [token |-> NoAuthToken, err |-> "failed to parse token file"]
    ELSE [token |-> UnmarshalToken(b[name].token.data).token, err |-> "nil"]

\* mutant: the reserved snapshot is made again although it exists
EnsureOriginalBackupAlways(b, raw, fault) ==
    LET mk == CreateMachineIDOnlyBackup([b EXCEPT ![OriginalBackupName] = NoEntry],
                                        OriginalBackupName, raw, fault)
    IN  IF mk.err # "nil"
        THEN [created |-> FALSE, b |-> b, err |-> "failed to create original backup"]
        ELSE [created |-> TRUE, b |-> mk.b, err |-> "nil"]

\* mutant: a failed creation is reported as created
EnsureOriginalBackupCreatedAnyway(b, raw, fault) ==
    IF BackupExists(b, OriginalBackupName) THEN [created |-> FALSE, b |-> b, err |-> "nil"]
    ELSE LET mk == CreateMachineIDOnlyBackup(b, OriginalBackupName, raw, fault)
         IN  [created |-> TRUE, b |-> mk.b, err |-> "nil"]

\* EnsureOriginalBackup()
EnsureOriginalBackup(b, raw, fault) ==
    IF BackupExists(b, OriginalBackupName) THEN [created |-> FALSE, b |-> b, err |-> "nil"]
    ELSE LET mk == CreateMachineIDOnlyBackup(b, OriginalBackupName, raw, fault)
         IN  IF mk.err # "nil"
             THEN [created |-> FALSE, b |-> mk.b, err |-> "failed to create original backup"]
             ELSE [created |-> TRUE, b |-> mk.b, err |-> "nil"]

\* what an interrupted copyFile leaves at its destination: os.Create has
\* truncated the file
Truncated == File(TokenDoc("invalid", EmptyObject))

RestoreTokenFaults == {"none", "mkdir", "copy"}

\* mutant: the live token is removed before the token half is looked for
RestoreBackupClearFirst(b, name, cache, fault) ==
    IF name = "" THEN [cache |-> cache, err |-> "ErrInvalidBackupName"]
    ELSE IF ~BackupExists(b, name) THEN [cache |-> cache, err |-> "ErrBackupNotFound"]
    ELSE IF ~b[name].token.exists
         THEN [cache |-> [cache EXCEPT !.token = NoToken],
               err |-> "backup token file not found"]
    ELSE IF fault = "mkdir" THEN [cache |-> cache, err |-> "failed to create token directory"]
    ELSE IF fault = "copy"
         THEN [cache |-> [dir |-> TRUE, token |-> Truncated], err |-> "failed to restore token"]
    ELSE [cache |-> [dir |-> TRUE, token |-> File(b[name].token.data)], err |-> "nil"]

\* RestoreBackup(name) on the session cache [dir, token].  fault "mkdir":
\* os.MkdirAll of the token directory fails; fault "copy": copyFile fails
RestoreBackup(b, name, cache, fault) ==
    IF name = "" THEN [cache |-> cache, err |-> "ErrInvalidBackupName"]
    ELSE IF ~BackupExists(b, name) THEN [cache |-> cache, err |-> "ErrBackupNotFound"]
    ELSE IF ~b[name].token.exists
         THEN [cache |-> cache, err |-> "backup token file not found"]
    ELSE IF fault = "mkdir" THEN [cache |-> cache, err |-> "failed to create token directory"]
    ELSE IF fault = "copy"
         THEN [cache |-> [dir |-> TRUE, token |-> Truncated], err |-> "failed to restore token"]
    ELSE [cache |-> [dir |-> TRUE, token |-> File(b[name].token.data)], err |-> "nil"]

\* mutant: only the two files of the snapshot are removed
DeleteBackupFilesOnly(b, name, rmOk) ==
    IF name = "" THEN [b |-> b, err |-> "ErrInvalidBackupName"]
    ELSE IF ~BackupExists(b, name) THEN [b |-> b, err |-> "ErrBackupNotFound"]
    ELSE IF ~rmOk THEN [b |-> b, err |-> "remove failed"]
    ELSE [b |-> [b EXCEPT ![name] = Dir(NoToken, NoMid)], err |-> "nil"]

\* DeleteBackup(name); rmOk: os.RemoveAll succeeds
DeleteBackup(b, name, rmOk) ==
    IF name = "" THEN [b |-> b, err |-> "ErrInvalidBackupName"]
    ELSE IF ~BackupExists(b, name) THEN [b |-> b, err |-> "ErrBackupNotFound"]
    ELSE IF ~rmOk THEN [b |-> b, err |-> "remove failed"]
    ELSE [b |-> RemoveAll(b, name), err |-> "nil"]

\* BackupDirName: the store root, a child of the executable's directory
BackupDirName == "backups"

\* names given as the elements between their path separators: "work/.." is
\* <<"work", "..">>, "" is <<>>
PathNames == {<<>>, <<"work">>, <<OriginalBackupName>>, <<".">>, <<"..">>,
              <<"work", "..">>, <<"work", "machine-id.json">>}

\* filepath.Clean, as filepath.Join applies it, on a path below the
\* executable's directory: "." is dropped, ".." takes the element before it
RECURSIVE Clean(_, _)
Clean(done, rest) ==
    IF rest = <<>> THEN done
    ELSE IF Head(rest) = "." THEN Clean(done, Tail(rest))
    ELSE IF Head(rest) = ".."
         THEN Clean(IF done = <<>> \/ done[Len(done)] = ".." THEN Append(done, "..")
                    ELSE SubSeq(done, 1, Len(done) - 1), Tail(rest))
    ELSE Clean(Append(done, Head(rest)), Tail(rest))

\* GetBackupPath(name): filepath.Join(rootPath, name), relative to the
\* executable's directory
GetBackupPath(name) ==
    IF name = <<>> THEN [path |-> <<>>, err |-> "ErrInvalidBackupName"]
    ELSE [path |-> Clean(<<BackupDirName>>, name), err |-> "nil"]

\* a path that is a direct child of the store root
IsStoreChild(path) == Len(path) = 2 /\ path[1] = BackupDirName /\ path[2] \in EntryNames

\* BackupExists on the joined path: os.Stat succeeds and is a directory; the
\* executable's directory exists, a snapshot directory holds files only
BackupExistsAt(root, b, name) ==
    LET p == GetBackupPath(name)
    IN  /\ p.err = "nil"
        /\ CASE p.path = <<>> -> TRUE
              [] p.path = <<BackupDirName>> -> root
              [] IsStoreChild(p.path) -> b[p.path[2]].kind = "dir"
              [] OTHER -> FALSE

\* os.RemoveAll on a path BackupExistsAt accepted
RemoveAllAt(root, b, path) ==
    IF IsStoreChild(path) THEN [b |-> RemoveAll(b, path[2]), root |-> root]
    ELSE [b |-> [n \in EntryNames |-> NoEntry], root |-> FALSE]

\* DeleteBackup(name) for any name; rmOk: os.RemoveAll succeeds
DeleteBackupAt(root, b, name, rmOk) ==
    LET p == GetBackupPath(name)
        rm == RemoveAllAt(root, b, p.path)
    IN  IF name = <<>> THEN [b |-> b, root |-> root, path |-> <<>>, err |-> "ErrInvalidBackupName"]
        ELSE IF ~BackupExistsAt(root, b, name)
        THEN [b |-> b, root |-> root, path |-> p.path, err |-> "ErrBackupNotFound"]
        ELSE IF ~rmOk THEN [b |-> b, root |-> root, path |-> p.path, err |-> "remove failed"]
        ELSE [b |-> rm.b, root |-> rm.root, path |-> p.path, err |-> "nil"]

\* time.Parse(time.RFC3339, mid.BackupTime): the zero time is written ""
ParseTime(t) == IF t = "rfc3339" THEN t ELSE ""

\* mutant: the identifier flag is set only when the file parses
BackupInfoParsedOnly(b, n) ==
    [Name |-> n,
     HasToken |-> b[n].token.exists,
     HasMachineID |-> b[n].mid.exists /\ b[n].mid.data.valid,
     BackupTime |-> IF b[n].mid.exists /\ b[n].mid.data.valid
                       /\ b[n].mid.data.backupTime # ""
                    THEN ParseTime(b[n].mid.data.backupTime) ELSE ""]

\* the BackupInfo ListBackups builds for directory entry n
BackupInfo(b, n) ==
    [Name |-> n,
     HasToken |-> b[n].token.exists,
     HasMachineID |-> b[n].mid.exists,
     BackupTime |-> IF b[n].mid.exists /\ b[n].mid.data.valid
                       /\ b[n].mid.data.backupTime # ""
                    THEN ParseTime(b[n].mid.data.backupTime) ELSE ""]

\* ListBackups(): the list returned, as the set of its entries, and its length
\* readOk: os.ReadDir of the root succeeds
ListBackupInfos(root, b, readOk) ==
    IF ~root THEN [infos |-> {}, len |-> 0, err |-> "nil"]
    ELSE IF ~readOk THEN [infos |-> {}, len |-> 0, err |-> "readdir failed"]
    ELSE [infos |-> {BackupInfo(b, n) : n \in ListBackups(b)},
          len |-> Cardinality(ListBackups(b)), err |-> "nil"]

(***************************************************************************)
(* reset: the hard reset (reset_windows.go).                               *)
(***************************************************************************)
NoResult == [isNil |-> TRUE, CacheCleared |-> FALSE, OldMachineID |-> NoId,
             NewMachineID |-> NoId, MachineIDChanged |-> FALSE]
\* result := &ResetResult{}
ResetResult == [NoResult EXCEPT !.isNil = FALSE]

\* what "reg add" can do: succeed ("ok"), exit non-zero with "Access is
\* denied" (in English or Chinese) in its output ("denied"), or exit non-zero
\* with any other output ("failed")
RegOutcomes == {"ok", "denied", "failed"}

\* setWindowsMachineIDNative(newGUID)
setWindowsMachineIDNative(reg) ==
    IF reg = "ok" THEN "nil"
    ELSE IF reg = "denied" THEN "ErrRequiresAdmin"
    ELSE "exit status 1"

\* SetWindowsMachineID(newGUID)
SetWindowsMachineID(os, reg) ==
    IF os # "windows" THEN "ErrNotWindows" ELSE setWindowsMachineIDNative(reg)

\* mutant: only the token file is removed, the cache directory stays
ClearSSOCacheTokenOnly(cache, rmOk) ==
    IF ~cache.dir THEN [cache |-> cache, err |-> "nil"]
    ELSE IF rmOk THEN [cache |-> [dir |-> TRUE, token |-> NoToken], err |-> "nil"]
    ELSE [cache |-> cache, err |-> "remove failed"]

\* reset.ClearSSOCache on [dir, token]; rmOk: os.RemoveAll succeeds
ClearSSOCache(cache, rmOk) ==
    IF ~cache.dir THEN [cache |-> cache, err |-> "nil"]
    ELSE IF rmOk THEN [cache |-> [dir |-> FALSE, token |-> NoToken], err |-> "nil"]
    ELSE [cache |-> cache, err |-> "remove failed"]

\* mutant: the comparison loop returns true for any readable snapshot
IsCurrentMachineIDBackedUpAnyId(os, guid, readable, b, listOk) ==
    LET cur == GetRawMachineId(os, guid, readable)
    IN  IF cur.err # "nil" THEN [val |-> FALSE, id |-> NoId, err |-> cur.err]
        ELSE IF ~listOk THEN [val |-> FALSE, id |-> cur.id, err |-> "readdir failed"]
        ELSE [val |-> \E n \in ListBackups(b) : ReadBackupMachineID(b, n).err = "nil",
              id |-> cur.id, err |-> "nil"]

\* mutant: the error of reading a snapshot's identifier half ends the check
IsCurrentMachineIDBackedUpDamagedFails(os, guid, readable, b, listOk) ==
    LET cur == GetRawMachineId(os, guid, readable)
    IN  IF cur.err # "nil" THEN [val |-> FALSE, id |-> NoId, err |-> cur.err]
        ELSE IF ~listOk THEN [val |-> FALSE, id |-> cur.id, err |-> "readdir failed"]
        ELSE IF \E n \in ListBackups(b) : ReadBackupMachineID(b, n).err # "nil"
        THEN [val |-> FALSE, id |-> cur.id, err |-> "failed to read machine id file"]
        ELSE [val |-> \E n \in ListBackups(b) :
                          EqualFold(ReadBackupMachineID(b, n).mid.machineId, cur.id),
              id |-> cur.id, err |-> "nil"]

\* the orders os.ReadDir may list the snapshots in
Listings(b) ==
    {l \in [1..Cardinality(ListBackups(b)) -> ListBackups(b)] :
        \A i, j \in DOMAIN l : l[i] = l[j] => i = j}

\* the loop of IsCurrentMachineIDBackedUp over the snapshots as listed: a
\* failed ReadBackupMachineID continues, the first match returns true
RECURSIVE BackedUpIn(_, _, _)
BackedUpIn(b, listed, currentID) ==
    IF listed = <<>> THEN FALSE
    ELSE LET r == ReadBackupMachineID(b, Head(listed))
         IN  IF r.err # "nil" THEN BackedUpIn(b, Tail(listed), currentID)
             ELSE IF EqualFold(r.mid.machineId, currentID) THEN TRUE
             ELSE BackedUpIn(b, Tail(listed), currentID)

\* IsCurrentMachineIDBackedUp; listOk: os.ReadDir of the root succeeds
IsCurrentMachineIDBackedUp(os, guid, readable, b, listOk) ==
    LET cur == GetRawMachineId(os, guid, readable)
    IN  IF cur.err # "nil" THEN [val |-> FALSE, id |-> NoId, err |-> cur.err]
        ELSE IF ~listOk THEN [val |-> FALSE, id |-> cur.id, err |-> "readdir failed"]
        ELSE [val |-> \E n \in ListBackups(b) :
                          /\ ReadBackupMachineID(b, n).err = "nil"
                          /\ EqualFold(ReadBackupMachineID(b, n).mid.machineId, cur.id),
              id |-> cur.id, err |-> "nil"]

\* mutant: the registry is written before the session cache is cleared
ResetEnvironmentWriteFirst(os, guid, readable, b, cache, skipBackupCheck, fault, newId) ==
    LET same(res, err, eff) ==
            [res |-> res, err |-> err, cache |-> cache, guid |-> guid, eff |-> eff]
        old == GetRawMachineId(os, guid, readable)
        r1 == [ResetResult EXCEPT !.OldMachineID = old.id]
        chk == IsCurrentMachineIDBackedUp(os, guid, readable, b, fault # "list")
        clr == ClearSSOCache(cache, fault # "rm")
        r3 == [r1 EXCEPT !.NewMachineID = newId]
        wr == SetWindowsMachineID(os, IF fault \in {"denied", "failed"} THEN fault ELSE "ok")
        e2 == IF skipBackupCheck THEN <<"readId">> ELSE <<"readId", "check">>
    IN  IF os # "windows" THEN same(NoResult, "ErrNotWindows", <<>>)
        ELSE IF old.err # "nil" THEN same(NoResult, old.err, <<"readId">>)
        ELSE IF ~skipBackupCheck /\ chk.err # "nil" THEN same(NoResult, chk.err, e2)
        ELSE IF ~skipBackupCheck /\ ~chk.val THEN same(r1, "ErrBackupRequired", e2)
        ELSE IF wr # "nil" THEN same(r3, wr, Append(e2, "writeStoreFailed"))
        ELSE IF clr.err # "nil"
             THEN [res |-> [r3 EXCEPT !.MachineIDChanged = TRUE], err |-> clr.err,
                   cache |-> cache, guid |-> newId,
                   eff |-> e2 \o <<"writeStore", "clearCacheFailed">>]
        ELSE [res |-> [r3 EXCEPT !.MachineIDChanged = TRUE, !.CacheCleared = TRUE],
              err |-> "nil", cache |-> clr.cache, guid |-> newId,
              eff |-> e2 \o <<"writeStore", "clearCache">>]

\* the one call to the OS that fails during an operation, if any (the
\* operation returns at its first failure)
ResetFaults == {"none", "list", "rm", "denied", "failed"}
RegOutcome(fault) == IF fault \in {"denied", "failed"} THEN fault ELSE "ok"

\* mutant: no platform gate of its own, the gate of SetWindowsMachineID is the
\* first to stop the reset
ResetEnvironmentLateGate(os, guid, readable, b, cache, skipBackupCheck, fault, newId) ==
    LET same(res, err, eff) ==
            [res |-> res, err |-> err, cache |-> cache, guid |-> guid, eff |-> eff]
        old == GetRawMachineId(os, guid, readable)
        r1 == [ResetResult EXCEPT !.OldMachineID = old.id]
        chk == IsCurrentMachineIDBackedUp(os, guid, readable, b, fault # "list")
        clr == ClearSSOCache(cache, fault # "rm")
        r3 == [r1 EXCEPT !.CacheCleared = TRUE]
        r4 == [r3 EXCEPT !.NewMachineID = newId]
        wr == SetWindowsMachineID(os, RegOutcome(fault))
        e2 == IF skipBackupCheck THEN <<"readId">> ELSE <<"readId", "check">>
    IN  IF old.err # "nil" THEN same(NoResult, old.err, <<"readId">>)
        ELSE IF ~skipBackupCheck /\ chk.err # "nil" THEN same(NoResult, chk.err, e2)
        ELSE IF ~skipBackupCheck /\ ~chk.val THEN same(r1, "ErrBackupRequired", e2)
        ELSE IF clr.err # "nil" THEN same(r1, clr.err, Append(e2, "clearCacheFailed"))
        ELSE IF wr # "nil"
             THEN [res |-> r4, err |-> wr, cache |-> clr.cache, guid |-> guid,
                   eff |-> e2 \o <<"clearCache", "writeStoreFailed">>]
        ELSE [res |-> [r4 EXCEPT !.MachineIDChanged = TRUE], err |-> "nil",
              cache |-> clr.cache, guid |-> newId,
              eff |-> e2 \o <<"clearCache", "writeStore">>]

\* mutant: a current identifier that no snapshot holds does not stop the reset
ResetEnvironmentUnchecked(os, guid, readable, b, cache, skipBackupCheck, fault, newId) ==
    LET same(res, err, eff) ==
            [res |-> res, err |-> err, cache |-> cache, guid |-> guid, eff |-> eff]
        old == GetRawMachineId(os, guid, readable)
        r1 == [ResetResult EXCEPT !.OldMachineID = old.id]
        chk == IsCurrentMachineIDBackedUp(os, guid, readable, b, fault # "list")
        clr == ClearSSOCache(cache, fault # "rm")
        r3 == [r1 EXCEPT !.CacheCleared = TRUE]
        r4 == [r3 EXCEPT !.NewMachineID = newId]
        wr == SetWindowsMachineID(os, RegOutcome(fault))
        e2 == IF skipBackupCheck THEN <<"readId">> ELSE <<"readId", "check">>
    IN  IF os # "windows" THEN same(NoResult, "ErrNotWindows", <<>>)
        ELSE IF old.err # "nil" THEN same(NoResult, old.err, <<"readId">>)
        ELSE IF ~skipBackupCheck /\ chk.err # "nil" THEN same(NoResult, chk.err, e2)
        ELSE IF clr.err # "nil" THEN same(r1, clr.err, Append(e2, "clearCacheFailed"))
        ELSE IF wr # "nil"
             THEN [res |-> r4, err |-> wr, cache |-> clr.cache, guid |-> guid,
                   eff |-> e2 \o <<"clearCache", "writeStoreFailed">>]
        ELSE [res |-> [r4 EXCEPT !.MachineIDChanged = TRUE], err |-> "nil",
              cache |-> clr.cache, guid |-> newId,
              eff |-> e2 \o <<"clearCache", "writeStore">>]

\* ResetEnvironment(skipBackupCheck).  fault: the OS call that fails; newId:
\* the value of uuid.New(); eff lists, in order, the effects the call had
ResetEnvironment(os, guid, readable, b, cache, skipBackupCheck, fault, newId) ==
    LET same(res, err, eff) ==
            [res |-> res, err |-> err, cache |-> cache, guid |-> guid, eff |-> eff]
        old == GetRawMachineId(os, guid, readable)
        r1 == [ResetResult EXCEPT !.OldMachineID = old.id]
        chk == IsCurrentMachineIDBackedUp(os, guid, readable, b, fault # "list")
        clr == ClearSSOCache(cache, fault # "rm")
        r3 == [r1 EXCEPT !.CacheCleared = TRUE]
        r4 == [r3 EXCEPT !.NewMachineID = newId]
        wr == SetWindowsMachineID(os, RegOutcome(fault))
        e2 == IF skipBackupCheck THEN <<"readId">> ELSE <<"readId", "check">>
    IN  IF os # "windows" THEN same(NoResult, "ErrNotWindows", <<>>)
        ELSE IF old.err # "nil" THEN same(NoResult, old.err, <<"readId">>)
        ELSE IF ~skipBackupCheck /\ chk.err # "nil" THEN same(NoResult, chk.err, e2)
        ELSE IF ~skipBackupCheck /\ ~chk.val THEN same(r1, "ErrBackupRequired", e2)
        ELSE IF clr.err # "nil" THEN same(r1, clr.err, Append(e2, "clearCacheFailed"))
        ELSE IF wr # "nil"
             THEN [res |-> r4, err |-> wr, cache |-> clr.cache, guid |-> guid,
                   eff |-> e2 \o <<"clearCache", "writeStoreFailed">>]
        ELSE [res |-> [r4 EXCEPT !.MachineIDChanged = TRUE], err |-> "nil",
              cache |-> clr.cache, guid |-> newId,
              eff |-> e2 \o <<"clearCache", "writeStore">>]

(***************************************************************************)
(* softreset: the soft reset (softreset.go).  The override file            *)
(* ~/.kiro/custom-machine-id is [exists, data]; an empty file holds NoId.  *)
(***************************************************************************)
NoCustomId == [exists |-> FALSE, data |-> NoId]

\* content that carries white space around an identifier (or around nothing),
\* as a hand-edited override file does
Padded(id) == [n |-> id.n, up |-> id.up, pad |-> TRUE]
\* strings.TrimSpace
TrimSpace(s) == IF "pad" \in DOMAIN s THEN [n |-> s.n, up |-> s.up] ELSE s

\* ReadCustomMachineID: the trimmed content of the override file
ReadCustomMachineID(custom) ==
    IF ~custom.exists THEN [id |-> NoId, err |-> "ErrCustomIDNotFound"]
    ELSE IF TrimSpace(custom.data) = NoId THEN [id |-> NoId, err |-> "ErrCustomIDNotFound"]
    ELSE [id |-> TrimSpace(custom.data), err |-> "nil"]

\* mutant: an override that exists is kept, the new identifier is not written
WriteCustomMachineIDKeepOld(custom, machineID, fault) ==
    IF fault = "mkdir" THEN [custom |-> custom, err |-> "mkdir failed"]
    ELSE IF fault = "write"
         THEN [custom |-> [exists |-> TRUE, data |-> NoId], err |-> "write failed"]
    ELSE IF custom.exists /\ custom.data # NoId THEN [custom |-> custom, err |-> "nil"]
    ELSE [custom |-> [exists |-> TRUE, data |-> machineID], err |-> "nil"]

\* WriteCustomMachineID(machineID).  fault "mkdir": os.MkdirAll fails; fault
\* "write": os.WriteFile fails after it has created or truncated the file
WriteCustomMachineID(custom, machineID, fault) ==
    IF fault = "mkdir" THEN [custom |-> custom, err |-> "mkdir failed"]
    ELSE IF fault = "write"
         THEN [custom |-> [exists |-> TRUE, data |-> NoId], err |-> "write failed"]
    ELSE [custom |-> [exists |-> TRUE, data |-> machineID], err |-> "nil"]

\* mutant: the override file is never removed
ClearCustomMachineIDKeep(custom, rmOk) == [custom |-> custom, err |-> "nil"]

\* ClearCustomMachineID; rmOk: os.Remove succeeds
ClearCustomMachineID(custom, rmOk) ==
    IF ~custom.exists THEN [custom |-> custom, err |-> "nil"]
    ELSE IF rmOk THEN [custom |-> NoCustomId, err |-> "nil"]
    ELSE [custom |-> custom, err |-> "remove failed"]

\* mutant: the cache directory is only looked at, never removed
SoftClearSSOCacheKeep(cache, rmOk) ==
    IF ~cache.dir THEN [cache |-> cache, err |-> "nil"]
    ELSE IF rmOk THEN [cache |-> cache, err |-> "nil"]
    ELSE [cache |-> cache, err |-> "remove failed"]

\* softreset.ClearSSOCache on [dir, token]; rmOk: os.RemoveAll succeeds
SoftClearSSOCache(cache, rmOk) ==
    IF ~cache.dir THEN [cache |-> cache, err |-> "nil"]
    ELSE IF rmOk THEN [cache |-> [dir |-> FALSE, token |-> NoToken], err |-> "nil"]
    ELSE [cache |-> cache, err |-> "remove failed"]

NoSoftResult == [isNil |-> TRUE, OldMachineID |-> NoId, NewMachineID |-> NoId,
                 Patched |-> FALSE, CacheCleared |-> FALSE]
\* result := &SoftResetResult{}
SoftResetResult == [NoSoftResult EXCEPT !.isNil = FALSE]

SoftFaults == {"none", "mkdir", "write", "rm"}

\* mutant: the override is written last, once the patch and the cache step
\* have succeeded
SoftResetEnvironmentWriteLast(custom, fs, cache, fault, newId) ==
    LET old == ReadCustomMachineID(custom)
        r2 == [SoftResetResult EXCEPT !.OldMachineID = old.id, !.NewMachineID = newId]
        chk == IsPatched(fs)
        pt == IF chk.val THEN [fs |-> fs, err |-> "nil"] ELSE PatchExtensionJS(fs)
        r4 == [r2 EXCEPT !.Patched = TRUE]
        clr == SoftClearSSOCache(cache, fault # "rm")
        wr == WriteCustomMachineID(custom, newId, fault)
    IN  IF chk.err # "nil"
        THEN [res |-> r2, err |-> chk.err, custom |-> custom, fs |-> fs, cache |-> cache]
        ELSE IF pt.err # "nil"
        THEN [res |-> r2, err |-> pt.err, custom |-> custom, fs |-> pt.fs, cache |-> cache]
        ELSE IF clr.err # "nil"
        THEN [res |-> r4, err |-> clr.err, custom |-> custom, fs |-> pt.fs, cache |-> cache]
        ELSE [res |-> [r4 EXCEPT !.CacheCleared = TRUE], err |-> wr.err,
              custom |-> wr.custom, fs |-> pt.fs, cache |-> clr.cache]

\* mutant: the session cache is cleared before the artifact is patched
SoftResetEnvironmentCacheFirst(custom, fs, cache, fault, newId) ==
    LET old == ReadCustomMachineID(custom)
        r2 == [SoftResetResult EXCEPT !.OldMachineID = old.id, !.NewMachineID = newId]
        wr == WriteCustomMachineID(custom, newId, fault)
        clr == SoftClearSSOCache(cache, fault # "rm")
        chk == IsPatched(fs)
        pt == IF chk.val THEN [fs |-> fs, err |-> "nil"] ELSE PatchExtensionJS(fs)
    IN  IF wr.err # "nil"
        THEN [res |-> r2, err |-> wr.err, custom |-> wr.custom, fs |-> fs, cache |-> cache]
        ELSE IF clr.err # "nil"
        THEN [res |-> r2, err |-> clr.err, custom |-> wr.custom, fs |-> fs, cache |-> cache]
        ELSE IF chk.err # "nil"
        THEN [res |-> r2, err |-> chk.err, custom |-> wr.custom, fs |-> fs,
              cache |-> clr.cache]
        ELSE IF pt.err # "nil"
        THEN [res |-> r2, err |-> pt.err, custom |-> wr.custom, fs |-> pt.fs,
              cache |-> clr.cache]
        ELSE [res |-> [r2 EXCEPT !.Patched = TRUE, !.CacheCleared = TRUE], err |-> "nil",
              custom |-> wr.custom, fs |-> pt.fs, cache |-> clr.cache]

\* SoftResetEnvironment().  fault: the OS call that fails; newId: the value of
\* uuid.New(), lower-cased
SoftResetEnvironment(custom, fs, cache, fault, newId) ==
    LET old == ReadCustomMachineID(custom)
        r2 == [SoftResetResult EXCEPT !.OldMachineID = old.id, !.NewMachineID = newId]
        wr == WriteCustomMachineID(custom, newId, fault)
        chk == IsPatched(fs)
        pt == IF chk.val THEN [fs |-> fs, err |-> "nil"] ELSE PatchExtensionJS(fs)
        r4 == [r2 EXCEPT !.Patched = TRUE]
        clr == SoftClearSSOCache(cache, fault # "rm")
    IN  IF wr.err # "nil"
        THEN [res |-> r2, err |-> wr.err, custom |-> wr.custom, fs |-> fs, cache |-> cache]
        ELSE IF chk.err # "nil"
        THEN [res |-> r2, err |-> chk.err, custom |-> wr.custom, fs |-> fs, cache |-> cache]
        ELSE IF pt.err # "nil"
        THEN [res |-> r2, err |-> pt.err, custom |-> wr.custom, fs |-> pt.fs,
              cache |-> cache]
        ELSE IF clr.err # "nil"
        THEN [res |-> r4, err |-> clr.err, custom |-> wr.custom, fs |-> pt.fs,
              cache |-> cache]
        ELSE [res |-> [r4 EXCEPT !.CacheCleared = TRUE], err |-> "nil",
              custom |-> wr.custom, fs |-> pt.fs, cache |-> clr.cache]

RestoreFaults == {"none", "rmId", "rm"}

\* RestoreOriginalMachineID()
RestoreOriginalMachineID(custom, cache, fault) ==
    LET del == ClearCustomMachineID(custom, fault # "rmId")
        clr == SoftClearSSOCache(cache, fault # "rm")
    IN  IF del.err # "nil" THEN [custom |-> del.custom, cache |-> cache, err |-> del.err]
        ELSE [custom |-> del.custom, cache |-> clr.cache, err |-> clr.err]

\* status := &SoftResetStatus{}
SoftResetStatus == [IsPatched |-> FALSE, HasCustomID |-> FALSE, CustomMachineID |-> NoId,
                    ExtensionPath |-> ""]

StatusFaults == {"none", "open", "readId"}

\* mutant: the presence of the override file alone sets the flag, and the
\* content is reported as it is stored
GetSoftResetStatusPresence(custom, fs, fault) ==
    [status |-> [IsPatched |-> IsPatched(fs).val,
                 HasCustomID |-> custom.exists,
                 CustomMachineID |-> custom.data,
                 ExtensionPath |-> IF GetExtensionJSPath(fs) = "nil" THEN "extension.js" ELSE ""],
     err |-> "nil"]

\* GetSoftResetStatus.  fault "open": os.Open or file.Read of the artifact
\* fails inside IsPatched; fault "readId": os.ReadFile of the override file
\* fails for another reason than its absence
GetSoftResetStatus(custom, fs, fault) ==
    LET patched == IF fault = "open" /\ fs.ext.exists
                   THEN [val |-> FALSE, err |-> "open failed"] ELSE IsPatched(fs)
        customID == IF fault = "readId" /\ custom.exists
                    THEN [id |-> NoId, err |-> "read failed"]
                    ELSE ReadCustomMachineID(custom)
        extPath == GetExtensionJSPath(fs)
        s1 == IF patched.err = "nil"
              THEN [SoftResetStatus EXCEPT !.IsPatched = patched.val] ELSE SoftResetStatus
        s2 == IF customID.err = "nil"
              THEN [s1 EXCEPT !.HasCustomID = TRUE, !.CustomMachineID = customID.id] ELSE s1
        s3 == IF extPath = "nil" THEN [s2 EXCEPT !.ExtensionPath = "extension.js"] ELSE s2
    IN  [status |-> s3, err |-> "nil"]

(***************************************************************************)
(* usage: GetUsageLimitsSafe and CalculateBalance.  Amounts are whole      *)
(* numbers; a usage record is UsageInfo.                                   *)
(***************************************************************************)
MaxAmount == 2     \* largest limit or usage of one quota

Amounts == 0..MaxAmount
Quota == [limit : Amounts, usage : Amounts]

\* UsageBreakdown: the base quota, FreeTrialInfo (nil or one quota), Bonuses
UsageBreakdowns ==
    [limit : Amounts, usage : Amounts,
     trial : SeqsUpTo({[limit |-> MaxAmount, usage |-> 0]}, 1),
     bonuses : SeqsUpTo({[limit |-> 1, usage |-> 1]}, 1)]

\* *awssso.KiroAuthToken as GetUsageLimitsSafe looks at it
NilToken == [nil |-> TRUE, AccessToken |-> "", ProfileArn |-> ""]
UsageTokens ==
    {NilToken} \cup [nil : {FALSE}, AccessToken : {"", "at"}, ProfileArn : {"", "arn"}]

\* what the usage service answers: an error, or a UsageLimitsResponse
NoResponse == [err |-> "request failed", title |-> "", list |-> <<>>]
ApiOutcomes ==
    {NoResponse} \cup [err : {"nil"}, title : {"", "PRO"}, list : SeqsUpTo(UsageBreakdowns, 1)]

EmptyUsageInfo == [SubscriptionTitle |-> "", UsageLimit |-> 0, CurrentUsage |-> 0,
                   Balance |-> 0, IsLowBalance |-> FALSE]
NoUsage == [nil |-> TRUE, panic |-> FALSE, info |-> EmptyUsageInfo]

RECURSIVE SumLimit(_)
SumLimit(qs) == IF qs = <<>> THEN 0 ELSE Head(qs).limit + SumLimit(Tail(qs))

RECURSIVE SumUsage(_)
SumUsage(qs) == IF qs = <<>> THEN 0 ELSE Head(qs).usage + SumUsage(Tail(qs))

\* the quotas of a breakdown list: base, free trial when present, every bonus
RECURSIVE Quotas(_)
Quotas(list) ==
    IF list = <<>> THEN <<>>
    ELSE LET b == Head(list)
         IN  <<[limit |-> b.limit, usage |-> b.usage]>> \o b.trial \o b.bonuses
             \o Quotas(Tail(list))

\* mutant: bonuses are left out of the sums
CalculateBalanceNoBonus(response) ==
    IF response.err # "nil" THEN EmptyUsageInfo
    ELSE LET base == [i \in DOMAIN response.list |->
                         [response.list[i] EXCEPT !.bonuses = <<>>]]
             usageLimit == SumLimit(Quotas(base))
             currentUsage == SumUsage(Quotas(base))
             balance == usageLimit - currentUsage
         IN  [SubscriptionTitle |-> response.title, UsageLimit |-> usageLimit,
              CurrentUsage |-> currentUsage, Balance |-> balance,
              IsLowBalance |-> usageLimit > 0 /\ 5 * balance < usageLimit]

\* mutant: the balance is low only when nothing is left
CalculateBalanceLowAtZero(response) ==
    IF response.err # "nil" THEN EmptyUsageInfo
    ELSE LET usageLimit == SumLimit(Quotas(response.list))
             currentUsage == SumUsage(Quotas(response.list))
             balance == usageLimit - currentUsage
         IN  [SubscriptionTitle |-> response.title, UsageLimit |-> usageLimit,
              CurrentUsage |-> currentUsage, Balance |-> balance,
              IsLowBalance |-> usageLimit > 0 /\ balance <= 0]

\* CalculateBalance(response)
CalculateBalance(response) ==
    IF response.err # "nil" THEN EmptyUsageInfo
    ELSE LET usageLimit == SumLimit(Quotas(response.list))
             currentUsage == SumUsage(Quotas(response.list))
             balance == usageLimit - currentUsage
         IN  [SubscriptionTitle |-> response.title, UsageLimit |-> usageLimit,
              CurrentUsage |-> currentUsage, Balance |-> balance,
              IsLowBalance |-> usageLimit > 0 /\ 5 * balance < usageLimit]

\* mutant: the token is dereferenced before it is compared with nil
GetUsageLimitsSafeNoNilCheck(token, api) ==
    IF token.nil THEN [nil |-> TRUE, panic |-> TRUE, info |-> EmptyUsageInfo]
    ELSE IF token.AccessToken = "" \/ token.ProfileArn = ""
         THEN [nil |-> FALSE, panic |-> FALSE, info |-> EmptyUsageInfo]
    ELSE [nil |-> FALSE, panic |-> FALSE, info |-> CalculateBalance(api)]

\* GetUsageLimitsSafe(token): an invalid token or a failed request gives the
\* empty usage record
GetUsageLimitsSafe(token, api) ==
    IF token.nil \/ token.AccessToken = "" \/ token.ProfileArn = ""
    THEN [nil |-> FALSE, panic |-> FALSE, info |-> EmptyUsageInfo]
    ELSE [nil |-> FALSE, panic |-> FALSE, info |-> CalculateBalance(api)]

(***************************************************************************)
(* State machine.                                                          *)
(***************************************************************************)
Snapshot == [extJS |-> extJS, extBackup |-> extBackup, customId |-> customId,
             cacheDir |-> cacheDir, liveToken |-> liveToken,
             machineGuid |-> machineGuid, backups |-> backups, rootDir |-> rootDir]

NoOp == [op |-> "init", name |-> "", skip |-> FALSE, fault |-> "none",
         access |-> "", expiry |-> "", err |-> "nil", res |-> NoResult,
         soft |-> NoSoftResult, eff |-> <<>>, created |-> FALSE, infos |-> {}, len |-> 0,
         status |-> SoftResetStatus, mid |-> Unparsable, token |-> NoAuthToken,
         patched |-> FALSE, oldPatched |-> FALSE, oldErr |-> "nil",
         arg |-> NilToken, api |-> NoResponse, usage |-> NoUsage,
         parts |-> <<>>, path |-> <<>>]
NoPrev == [op |-> "init", err |-> "nil", ext |-> NoFile, bak |-> NoFile]

\* the history variables after an operation
Hist(l) ==
    /\ pre' = Snapshot
    /\ last' = l
    /\ UNCHANGED <<prev, seen, procs>>

\* the history variables after an operation of the Patch Engine
HistPatch(l) ==
    /\ pre' = Snapshot
    /\ last' = l
    /\ prev' = [op |-> last.op, err |-> last.err, ext |-> pre.extJS, bak |-> pre.extBackup]
    /\ UNCHANGED <<seen, procs>>

\* the history variables after an operation that makes a snapshot
HistSeen(l, s) ==
    /\ pre' = Snapshot
    /\ last' = l
    /\ seen' = s
    /\ UNCHANGED <<prev, procs>>

Chunks == {PatchMarker, OldPatchMarker, OldPatchMarkerV2, PatchEndMarker, Newline, "x", "PAD"}
BakChunks == {"x", PatchMarker}

Tokens == {TokenDoc("ide", [EmptyObject EXCEPT !["accessToken"] = Leaf(Str("a1")),
                                               !["refreshToken"] = Leaf(Str("r1"))])}

\* the parts of the state an Init leaves at their defaults
DefaultPatch == extJS = NoFile /\ extBackup = NoFile
DefaultSoft == customId = [exists |-> FALSE, data |-> NoId]
DefaultCache == cacheDir = FALSE /\ liveToken = NoToken
DefaultStore == backups = [n \in EntryNames |-> NoEntry] /\ rootDir = FALSE
DefaultOS == goos = "windows" /\ machineGuid = [n |-> 1, up |-> FALSE] /\ idReadable = TRUE
\* no snapshot has been made yet, ensureOriginalSnapshot has not run
NoSeen == [ran |-> FALSE, first |-> NoId, made |-> [n \in EntryNames |-> NoToken],
           madeId |-> [n \in EntryNames |-> NoId], artifact |-> <<>>]
\* two invocations of apply(), e.g. from two rapid clicks; none has started
Procs == {1, 2}
NoProcs == [p \in Procs |-> [pc |-> "idle", content |-> <<>>, err |-> "nil",
                             passed |-> FALSE, writesSeen |-> 0, wrote |-> FALSE]]
InitHist == pre = Snapshot /\ last = NoOp /\ prev = NoPrev /\ seen = NoSeen /\ procs = NoProcs

\* ensureBackupRoot, which CreateBackup and CreateMachineIDOnlyBackup call once
\* the name is valid and free: the root exists afterwards
RootAfter(root, b, name) == root \/ (name # "" /\ ~BackupExists(b, name))
\* the live token and the raw identifier a successful create(name) saw
MadeAfter(name, err, tok, id) ==
    IF err = "nil" THEN [seen EXCEPT !.made[name] = tok, !.madeId[name] = id] ELSE seen

\* apply(): PatchExtensionJS
Apply ==
    LET r == PatchExtensionJS(PatchFS(extJS, extBackup))
    IN  /\ extJS' = r.fs.ext
        /\ extBackup' = r.fs.bak
        /\ HistPatch([NoOp EXCEPT !.op = "apply", !.err = r.err])
        /\ UNCHANGED <<goos, customId, cacheDir, liveToken, machineGuid, idReadable, backups, rootDir>>

\* remove(): UnpatchExtensionJS
Remove ==
    LET r == UnpatchExtensionJS(PatchFS(extJS, extBackup))
    IN  /\ extJS' = r.fs.ext
        /\ extBackup' = r.fs.bak
        /\ HistPatch([NoOp EXCEPT !.op = "remove", !.err = r.err])
        /\ UNCHANGED <<goos, customId, cacheDir, liveToken, machineGuid, idReadable, backups, rootDir>>

\* detection: IsPatched and IsOldPatched
Detect ==
    LET p == IsPatched(PatchFS(extJS, extBackup))
        o == IsOldPatched(PatchFS(extJS, extBackup))
    IN  /\ Hist([NoOp EXCEPT !.op = "detect", !.err = p.err, !.patched = p.val,
                             !.oldPatched = o.val, !.oldErr = o.err])
        /\ UNCHANGED <<goos, extJS, extBackup, customId, cacheDir, liveToken,
                       machineGuid, idReadable, backups, rootDir>>

\* backup(): BackupExtensionJS
Backup ==
    LET r == BackupExtensionJS(PatchFS(extJS, extBackup))
    IN  /\ extJS' = r.fs.ext
        /\ extBackup' = r.fs.bak
        /\ HistPatch([NoOp EXCEPT !.op = "backup", !.err = r.err])
        /\ UNCHANGED <<goos, customId, cacheDir, liveToken, machineGuid, idReadable, backups, rootDir>>

\* restore(): RestoreExtensionJS
Restore ==
    LET r == RestoreExtensionJS(PatchFS(extJS, extBackup))
    IN  /\ extJS' = r.fs.ext
        /\ extBackup' = r.fs.bak
        /\ HistPatch([NoOp EXCEPT !.op = "restore", !.err = r.err])
        /\ UNCHANGED <<goos, customId, cacheDir, liveToken, machineGuid, idReadable, backups, rootDir>>

\* the history variables after a step of a concurrent invocation
HistStep(l) ==
    /\ pre' = Snapshot
    /\ last' = l
    /\ UNCHANGED <<prev, seen>>

\* the payload writes completed so far
Writes == Cardinality({q \in Procs : procs[q].wrote})

\* invocation p of apply() checks the markers
ApplyCheck(p) ==
    /\ procs[p].pc = "idle"
    /\ LET r == PatchCheck(PatchFS(extJS, extBackup))
       IN  /\ extJS' = r.fs.ext
           /\ extBackup' = r.fs.bak
           /\ procs' = [procs EXCEPT ![p].pc = IF r.go THEN "checked" ELSE "done",
                                     ![p].err = r.err, ![p].passed = r.go,
                                     ![p].writesSeen = Writes]
           /\ HistStep([NoOp EXCEPT !.op = "apply.check", !.err = r.err])
    /\ UNCHANGED <<goos, customId, cacheDir, liveToken, machineGuid, idReadable, backups, rootDir>>

\* invocation p makes the sibling backup
ApplyBackup(p) ==
    /\ procs[p].pc = "checked"
    /\ LET r == BackupExtensionJS(PatchFS(extJS, extBackup))
       IN  /\ extJS' = r.fs.ext
           /\ extBackup' = r.fs.bak
           /\ procs' = [procs EXCEPT ![p].pc = IF r.err = "nil" THEN "backedUp" ELSE "done",
                                     ![p].err = r.err]
           /\ HistStep([NoOp EXCEPT !.op = "apply.backup", !.err = r.err])
    /\ UNCHANGED <<goos, customId, cacheDir, liveToken, machineGuid, idReadable, backups, rootDir>>

\* invocation p reads the content of the artifact
ApplyRead(p) ==
    /\ procs[p].pc = "backedUp"
    /\ LET r == PatchRead(PatchFS(extJS, extBackup))
       IN  /\ procs' = [procs EXCEPT ![p].pc = IF r.err = "nil" THEN "read" ELSE "done",
                                     ![p].err = r.err, ![p].content = r.content]
           /\ HistStep([NoOp EXCEPT !.op = "apply.read", !.err = r.err])
    /\ UNCHANGED <<goos, extJS, extBackup, customId, cacheDir, liveToken, machineGuid,
                   idReadable, backups, rootDir>>

\* invocation p writes the payload and the content it has read
ApplyWrite(p) ==
    /\ procs[p].pc = "read"
    /\ LET r == PatchWrite(PatchFS(extJS, extBackup), procs[p].content)
       IN  /\ extJS' = r.ext
           /\ extBackup' = r.bak
           /\ procs' = [procs EXCEPT ![p].pc = "done", ![p].wrote = TRUE]
           /\ HistStep([NoOp EXCEPT !.op = "apply.write"])
    /\ UNCHANGED <<goos, customId, cacheDir, liveToken, machineGuid, idReadable, backups, rootDir>>

\* artifacts without a payload in them: none, filler and end markers in any
\* order, a stale payload
RaceArtifacts ==
    {NoFile, File(<<OldPatchMarkerV2, PatchEndMarker, "x">>)}
        \cup {File(c) : c \in SeqsUpTo({"x", PatchEndMarker, Newline}, MaxLen)}

\* two invocations of apply() at once
InitRace ==
    /\ extJS \in RaceArtifacts
    /\ extBackup \in {NoFile} \cup {File(c) : c \in SeqsUpTo({"x"}, MaxBakLen)}
    /\ DefaultSoft /\ DefaultCache /\ DefaultStore /\ DefaultOS
    /\ InitHist

NextRace ==
    \/ \E p \in Procs : ApplyCheck(p)
    \/ \E p \in Procs : ApplyBackup(p)
    \/ \E p \in Procs : ApplyRead(p)
    \/ \E p \in Procs : ApplyWrite(p)

SpecRace == InitRace /\ [][NextRace]_vars

\* the chunks of the artifacts the whole engine is run on
EngineChunks == {PatchMarker, OldPatchMarkerV2, PatchEndMarker, "x", "PAD"}

\* all operations of the Patch Engine, on an installation with or without
\* the artifact
InitEngine ==
    /\ extJS \in {NoFile} \cup {File(c) : c \in SeqsUpTo(EngineChunks, MaxLen)}
    /\ extBackup \in {NoFile} \cup {File(c) : c \in SeqsUpTo({"x"}, MaxBakLen)}
    /\ DefaultSoft /\ DefaultCache /\ DefaultStore /\ DefaultOS
    /\ InitHist

NextEngine == Detect \/ Apply \/ Remove \/ Backup \/ Restore

SpecEngine == InitEngine /\ [][NextEngine]_vars

\* GetUsageLimitsSafe(token) for some token and some answer of the service
Usage ==
    \E token \in UsageTokens, api \in ApiOutcomes :
        /\ Hist([NoOp EXCEPT !.op = "usage", !.arg = token, !.api = api,
                             !.usage = GetUsageLimitsSafe(token, api)])
        /\ UNCHANGED <<goos, extJS, extBackup, customId, cacheDir, liveToken,
                       machineGuid, idReadable, backups, rootDir>>

InitUsage ==
    /\ DefaultPatch /\ DefaultSoft /\ DefaultCache /\ DefaultStore /\ DefaultOS
    /\ InitHist

NextUsage == Usage

SpecUsage == InitUsage /\ [][NextUsage]_vars

\* detection on every artifact, before and after apply(); detection never
\* looks at the sibling backup
InitDetect ==
    /\ extJS \in {NoFile} \cup {File(c) : c \in SeqsUpTo(EngineChunks, MaxLen)}
    /\ extBackup = NoFile
    /\ DefaultSoft /\ DefaultCache /\ DefaultStore /\ DefaultOS
    /\ InitHist

NextDetect == Detect \/ Apply

SpecDetect == InitDetect /\ [][NextDetect]_vars

InitPatch ==
    /\ extJS \in {NoFile} \cup {File(c) : c \in SeqsUpTo(Chunks, MaxLen)}
    /\ extBackup \in {NoFile} \cup {File(c) : c \in SeqsUpTo(BakChunks, MaxBakLen)}
    /\ DefaultSoft /\ DefaultCache /\ DefaultStore /\ DefaultOS
    /\ InitHist

NextPatch == Apply \/ Remove

SpecPatch == InitPatch /\ [][NextPatch]_vars

\* create(name): CreateBackup
Create ==
    \E name \in Names, fault \in CreateFaults :
        LET r == CreateBackup(backups, name, liveToken,
                              GetRawMachineId(goos, machineGuid, idReadable), fault)
        IN  /\ backups' = r.b
            /\ rootDir' = RootAfter(rootDir, backups, name)
            /\ HistSeen([NoOp EXCEPT !.op = "create", !.name = name, !.fault = fault,
                                     !.err = r.err],
                        MadeAfter(name, r.err, liveToken,
                                  GetRawMachineId(goos, machineGuid, idReadable).id))
            /\ UNCHANGED <<goos, extJS, extBackup, customId, cacheDir, liveToken,
                           machineGuid, idReadable>>

\* createIdentifierOnly(name): CreateMachineIDOnlyBackup
CreateIdentifierOnly ==
    \E name \in Names, fault \in {"none", "write"} :
        LET r == CreateMachineIDOnlyBackup(backups, name,
                              GetRawMachineId(goos, machineGuid, idReadable), fault)
        IN  /\ backups' = r.b
            /\ rootDir' = RootAfter(rootDir, backups, name)
            /\ HistSeen([NoOp EXCEPT !.op = "createIdOnly", !.name = name, !.fault = fault,
                                     !.err = r.err],
                        MadeAfter(name, r.err, NoToken,
                                  GetRawMachineId(goos, machineGuid, idReadable).id))
            /\ UNCHANGED <<goos, extJS, extBackup, customId, cacheDir, liveToken,
                           machineGuid, idReadable>>

\* resetEnvironment(skipBackupCheck): ResetEnvironment
Reset ==
    \E skip \in BOOLEAN, fault \in ResetFaults, newId \in {i \in Ids : ~i.up} :
        LET r == ResetEnvironment(goos, machineGuid, idReadable, backups,
                                  [dir |-> cacheDir, token |-> liveToken], skip,
                                  fault, newId)
        IN  /\ cacheDir' = r.cache.dir
            /\ liveToken' = r.cache.token
            /\ machineGuid' = r.guid
            /\ Hist([NoOp EXCEPT !.op = "reset", !.skip = skip, !.fault = fault,
                                 !.err = r.err, !.res = r.res, !.eff = r.eff])
            /\ UNCHANGED <<goos, extJS, extBackup, customId, idReadable, backups, rootDir>>

\* the snapshots an initial store may hold
MidFiles == {NoMid, File(Unparsable)} \cup {File(MachineIDBackup(i)) : i \in Ids}
TokenFiles == {NoToken} \cup {File(t) : t \in Tokens}
OriginalEntries ==
    {NoEntry} \cup {Dir(NoToken, File(MachineIDBackup(i))) : i \in {j \in Ids : ~j.up}}
WorkEntries == {NoEntry, PlainFile} \cup {Dir(t, m) : t \in TokenFiles, m \in MidFiles}

InitCache ==
    \/ cacheDir = FALSE /\ liveToken = NoToken
    \/ cacheDir = TRUE /\ liveToken \in TokenFiles

\* the snapshot registry
InitStore ==
    /\ \E w \in WorkEntries, o \in OriginalEntries :
           backups = [n \in EntryNames |-> IF n = OriginalBackupName THEN o ELSE w]
    /\ rootDir = TRUE
    /\ goos = "windows"
    /\ machineGuid \in Ids
    /\ idReadable \in BOOLEAN
    /\ InitCache
    /\ DefaultPatch /\ DefaultSoft
    /\ InitHist

NextStore == Create \/ CreateIdentifierOnly

SpecStore == InitStore /\ [][NextStore]_vars

\* the hard reset over a store of identifier snapshots
InitReset ==
    /\ \E w \in {NoEntry} \cup {Dir(NoToken, m) : m \in MidFiles} :
           backups = [n \in EntryNames |-> IF n = OriginalBackupName THEN NoEntry ELSE w]
    /\ rootDir = TRUE
    /\ goos \in {"windows", "linux"}
    /\ machineGuid \in Ids
    /\ idReadable \in BOOLEAN
    /\ InitCache
    /\ DefaultPatch /\ DefaultSoft
    /\ InitHist

NextReset == Reset \/ CreateIdentifierOnly

SpecReset == InitReset /\ [][NextReset]_vars

\* softReset(): SoftResetEnvironment
SoftReset ==
    \E fault \in SoftFaults, newId \in {i \in Ids : ~i.up} :
        LET r == SoftResetEnvironment(customId, PatchFS(extJS, extBackup),
                                      [dir |-> cacheDir, token |-> liveToken], fault, newId)
        IN  /\ customId' = r.custom
            /\ extJS' = r.fs.ext
            /\ extBackup' = r.fs.bak
            /\ cacheDir' = r.cache.dir
            /\ liveToken' = r.cache.token
            /\ Hist([NoOp EXCEPT !.op = "softReset", !.fault = fault, !.err = r.err,
                                 !.soft = r.res])
            /\ UNCHANGED <<goos, machineGuid, idReadable, backups, rootDir>>

\* restoreOriginal(): RestoreOriginalMachineID
RestoreOriginal ==
    \E fault \in RestoreFaults :
        LET r == RestoreOriginalMachineID(customId, [dir |-> cacheDir, token |-> liveToken],
                                          fault)
        IN  /\ customId' = r.custom
            /\ cacheDir' = r.cache.dir
            /\ liveToken' = r.cache.token
            /\ Hist([NoOp EXCEPT !.op = "restoreOriginal", !.fault = fault, !.err = r.err])
            /\ UNCHANGED <<goos, extJS, extBackup, machineGuid, idReadable, backups, rootDir>>

\* the artifacts a soft reset may find: none, plain, stale without end marker,
\* stale with its payload, patched
SoftArtifacts ==
    {NoFile, File(<<"x">>), File(<<OldPatchMarker>>),
     File(<<OldPatchMarkerV2, PatchEndMarker, "x">>), File(patchCode \o <<"x">>)}

\* the soft and the hard controller over one installation
InitSoft ==
    /\ extJS \in SoftArtifacts
    /\ extBackup \in {NoFile, File(<<"x">>)}
    /\ customId \in {NoCustomId, [exists |-> TRUE, data |-> NoId]}
                    \cup {[exists |-> TRUE, data |-> i] : i \in {j \in Ids : ~j.up}}
    /\ InitCache
    /\ goos \in {"windows", "linux"}
    /\ machineGuid = [n |-> 1, up |-> TRUE]
    /\ idReadable \in BOOLEAN
    /\ DefaultStore
    /\ InitHist

NextSoft == SoftReset \/ RestoreOriginal \/ Reset

SpecSoft == InitSoft /\ [][NextSoft]_vars

\* status(): GetSoftResetStatus
Status ==
    \E fault \in StatusFaults :
        LET r == GetSoftResetStatus(customId, PatchFS(extJS, extBackup), fault)
        IN  /\ Hist([NoOp EXCEPT !.op = "status", !.fault = fault, !.err = r.err,
                                 !.status = r.status])
            /\ UNCHANGED <<goos, extJS, extBackup, customId, cacheDir, liveToken,
                           machineGuid, idReadable, backups, rootDir>>

\* the override files status() may find: none, empty, an identifier, an
\* identifier with white space around it, white space only
StatusOverrides ==
    {NoCustomId, File(NoId), File([n |-> 1, up |-> FALSE]),
     File(Padded([n |-> 1, up |-> FALSE])), File(Padded(NoId))}

\* status reporting between soft resets and restores
InitStatus ==
    /\ extJS \in SoftArtifacts
    /\ extBackup = NoFile
    /\ customId \in StatusOverrides
    /\ InitCache
    /\ DefaultStore /\ DefaultOS
    /\ InitHist

NextStatus == Status \/ SoftReset \/ RestoreOriginal

SpecStatus == InitStatus /\ [][NextStatus]_vars

\* ensureOriginalSnapshot(): EnsureOriginalBackup
EnsureOriginal ==
    \E fault \in {"none", "write"} :
        LET raw == GetRawMachineId(goos, machineGuid, idReadable)
            r == EnsureOriginalBackup(backups, raw, fault)
            made == MadeAfter(OriginalBackupName, IF r.created THEN "nil" ELSE "kept",
                              NoToken, raw.id)
        IN  /\ backups' = r.b
            /\ rootDir' = RootAfter(rootDir, backups, OriginalBackupName)
            /\ HistSeen([NoOp EXCEPT !.op = "ensureOriginal", !.name = OriginalBackupName,
                                     !.fault = fault, !.err = r.err, !.created = r.created],
                        IF seen.ran \/ raw.err # "nil" THEN made
                        ELSE [made EXCEPT !.ran = TRUE, !.first = raw.id])
            /\ UNCHANGED <<goos, extJS, extBackup, customId, cacheDir, liveToken,
                           machineGuid, idReadable>>

\* delete(name): DeleteBackup
Delete ==
    \E name \in Names, rmOk \in BOOLEAN :
        LET r == DeleteBackup(backups, name, rmOk)
        IN  /\ backups' = r.b
            /\ Hist([NoOp EXCEPT !.op = "delete", !.name = name,
                                 !.fault = IF rmOk THEN "none" ELSE "rm", !.err = r.err])
            /\ UNCHANGED <<goos, extJS, extBackup, customId, cacheDir, liveToken,
                           machineGuid, idReadable, rootDir>>

\* restoreToken(name): RestoreBackup
RestoreToken ==
    \E name \in Names, fault \in RestoreTokenFaults :
        LET r == RestoreBackup(backups, name, [dir |-> cacheDir, token |-> liveToken], fault)
        IN  /\ cacheDir' = r.cache.dir
            /\ liveToken' = r.cache.token
            /\ Hist([NoOp EXCEPT !.op = "restoreToken", !.name = name, !.fault = fault,
                                 !.err = r.err])
            /\ UNCHANGED <<goos, extJS, extBackup, customId, machineGuid, idReadable,
                           backups, rootDir>>

\* list(): ListBackups
List ==
    \E readOk \in BOOLEAN :
        LET r == ListBackupInfos(rootDir, backups, readOk)
        IN  /\ Hist([NoOp EXCEPT !.op = "list", !.fault = IF readOk THEN "none" ELSE "list",
                                 !.err = r.err, !.infos = r.infos, !.len = r.len])
            /\ UNCHANGED <<goos, extJS, extBackup, customId, cacheDir, liveToken,
                           machineGuid, idReadable, backups, rootDir>>

\* a second token, as another login leaves it
OtherToken == TokenDoc("ide", [EmptyObject EXCEPT !["accessToken"] = Leaf(Str("a2")),
                                                  !["refreshToken"] = Leaf(Str("r2"))])

\* readIdentifier(name): ReadBackupMachineID
ReadIdentifier ==
    \E name \in Names :
        LET r == ReadBackupMachineID(backups, name)
        IN  /\ Hist([NoOp EXCEPT !.op = "readIdentifier", !.name = name, !.err = r.err,
                                 !.mid = r.mid])
            /\ UNCHANGED <<goos, extJS, extBackup, customId, cacheDir, liveToken,
                           machineGuid, idReadable, backups, rootDir>>

\* readToken(name): ReadBackupToken
ReadToken ==
    \E name \in Names :
        LET r == ReadBackupToken(backups, name)
        IN  /\ Hist([NoOp EXCEPT !.op = "readToken", !.name = name, !.err = r.err,
                                 !.token = r.token])
            /\ UNCHANGED <<goos, extJS, extBackup, customId, cacheDir, liveToken,
                           machineGuid, idReadable, backups, rootDir>>

\* the snapshots a read may find: none, a file in the way, an empty directory,
\* a full snapshot, halves that do not parse, a token with a number in a
\* string member
ReadEntries ==
    {NoEntry, PlainFile, Dir(NoToken, NoMid),
     Dir(File(OtherToken), File(MachineIDBackup([n |-> 1, up |-> FALSE]))),
     Dir(File(TokenDoc("invalid", EmptyObject)), File(Unparsable)),
     Dir(File(TokenDoc("ide", [EmptyObject EXCEPT !["accessToken"] = Leaf(Num(0, 42))])),
         NoMid),
     Dir(NoToken, File(MachineIDBackup([n |-> 1, up |-> FALSE])))}

\* reading halves of snapshots that come and go
InitRead ==
    /\ \E w \in ReadEntries, o \in ReadEntries \ {PlainFile} :
           backups = [n \in EntryNames |-> IF n = "work" THEN w ELSE o]
    /\ rootDir = TRUE
    /\ InitCache
    /\ DefaultPatch /\ DefaultSoft /\ DefaultOS
    /\ InitHist

NextRead == ReadIdentifier \/ ReadToken \/ Delete \/ Create

SpecRead == InitRead /\ [][NextRead]_vars

\* a machine-id.json whose backupTime is not RFC 3339
MidBadTime(id) == [valid |-> TRUE, machineId |-> id, backupTime |-> "bad"]

\* the entries the store may hold when the tool starts: none, a file in the
\* way, a full snapshot, an empty directory, damaged identifier halves
RegistryEntries ==
    {NoEntry, PlainFile, Dir(NoToken, NoMid),
     Dir(File(OtherToken), File(MachineIDBackup([n |-> 1, up |-> FALSE]))),
     Dir(File(OtherToken), File(Unparsable)),
     Dir(NoToken, File(MidBadTime([n |-> 1, up |-> FALSE])))}

\* the registry over its life: the reserved snapshot does not exist yet
InitRegistry ==
    /\ \E w \in RegistryEntries :
           /\ backups = [n \in EntryNames |-> IF n = OriginalBackupName THEN NoEntry ELSE w]
           /\ rootDir \in (IF w = NoEntry THEN BOOLEAN ELSE {TRUE})
    /\ InitCache
    /\ goos = "windows"
    /\ machineGuid = [n |-> 1, up |-> TRUE]
    /\ idReadable \in BOOLEAN
    /\ DefaultSoft
    /\ DefaultPatch
    /\ InitHist

NextRegistry == EnsureOriginal \/ Create \/ Delete \/ RestoreToken \/ List

SpecRegistry == InitRegistry /\ [][NextRegistry]_vars

\* the reserved snapshot over substitutions of the identifier: first use of
\* the tool on a machine with a live token
InitOrigin ==
    /\ DefaultStore
    /\ cacheDir = TRUE /\ liveToken \in {File(t) : t \in Tokens}
    /\ goos = "windows"
    /\ machineGuid = [n |-> 1, up |-> TRUE]
    /\ idReadable = TRUE
    /\ customId \in {NoCustomId, [exists |-> TRUE, data |-> [n |-> MaxIds, up |-> FALSE]]}
    /\ DefaultPatch
    /\ InitHist

NextOrigin == EnsureOriginal \/ Delete \/ Reset \/ SoftReset

SpecOrigin == InitOrigin /\ [][NextOrigin]_vars

\* full snapshots while the live token and the system identifier change: a
\* signed-in machine with a soft override, with or without an older snapshot
\* (a full one of another account, or one holding an identifier only)
InitSnapshot ==
    /\ \E w \in {NoEntry,
                 Dir(File(OtherToken), File(MachineIDBackup([n |-> 1, up |-> FALSE]))),
                 Dir(NoToken, File(MachineIDBackup([n |-> 1, up |-> FALSE])))} :
          /\ backups = [n \in EntryNames |-> IF n = "work" THEN w ELSE NoEntry]
          /\ rootDir = (w # NoEntry)
    /\ cacheDir = TRUE /\ liveToken \in {File(t) : t \in Tokens}
    /\ goos = "windows"
    /\ machineGuid = [n |-> 1, up |-> TRUE]
    /\ idReadable = TRUE
    /\ customId = [exists |-> TRUE, data |-> [n |-> MaxIds, up |-> FALSE]]
    /\ DefaultPatch
    /\ InitHist

NextSnapshot == Create \/ RestoreToken \/ Reset

SpecSnapshot == InitSnapshot /\ [][NextSnapshot]_vars

\* updateToken(name, newAccessToken, newExpiry): WriteBackupToken
UpdateToken ==
    \E name \in Names, accessToken \in {"a1", "a2"}, expiresAt \in {"e2"} :
        LET r == WriteBackupToken(backups, name, accessToken, expiresAt)
        IN  /\ backups' = r.b
            /\ Hist([NoOp EXCEPT !.op = "updateToken", !.name = name,
                                 !.access = accessToken, !.expiry = expiresAt,
                                 !.err = r.err])
            /\ UNCHANGED <<goos, extJS, extBackup, customId, cacheDir, liveToken,
                           machineGuid, idReadable, rootDir>>

\* the integers a token member may hold: small ones and ones around 2^53
Numbers == {Num(0, 42), Num(Two23, 0), Num(Two23, 1), Num(Two23, 2), Num(Two23, 3)}
NestedObjects == {[NoSub EXCEPT !["key1"] = Str("k1"), !["key2"] = n] : n \in Numbers}
TokenObjects ==
    {[k \in TokenKeys |->
         CASE k = "accessToken" -> a
           [] k = "expiresAt" -> e
           [] k = "refreshToken" -> r
           [] k = "customField2" -> c
           [] k = "nestedObject" -> o] :
     a \in {Leaf(Absent), Leaf(Str("a1"))},
     e \in {Leaf(Absent), Leaf(Str("e1"))},
     r \in {Leaf(Absent), Leaf(Str("r1"))},
     c \in {Leaf(Absent), Leaf(Str("x"))} \cup {Leaf(n) : n \in Numbers},
     o \in {Leaf(Absent)} \cup {Obj(sub) : sub \in NestedObjects}}

\* token updates on a snapshot holding any token object
InitToken ==
    /\ \E t \in TokenObjects, layout \in {"ide", "invalid"} :
           backups = [n \in EntryNames |->
                         IF n = "work" THEN Dir(File(TokenDoc(layout, t)), NoMid)
                         ELSE NoEntry]
    /\ rootDir = TRUE
    /\ DefaultPatch /\ DefaultSoft /\ DefaultCache /\ DefaultOS
    /\ InitHist

NextToken == UpdateToken

SpecToken == InitToken /\ [][NextToken]_vars

\* no operation has been called yet
FirstCall == last.op = "init"

\* one operation of any component on an installation in any of its shapes:
\* artifact absent, plain, stale or patched, with or without sibling backup,
\* override, session cache and snapshots
InitOwnership ==
    /\ extJS \in SoftArtifacts
    /\ extBackup \in {NoFile, File(<<"x">>)}
    /\ customId \in {NoCustomId, File([n |-> MaxIds, up |-> FALSE])}
    /\ InitCache
    /\ goos \in {"windows", "linux"}
    /\ machineGuid = [n |-> 1, up |-> TRUE]
    /\ idReadable = TRUE
    /\ \E w \in {NoEntry,
                 Dir(File(OtherToken), File(MachineIDBackup([n |-> 1, up |-> FALSE]))),
                 Dir(NoToken, File(MachineIDBackup([n |-> 1, up |-> FALSE])))},
          o \in {NoEntry, Dir(NoToken, File(MachineIDBackup([n |-> 1, up |-> FALSE])))} :
           backups = [n \in EntryNames |-> IF n = "work" THEN w ELSE o]
    /\ rootDir = TRUE
    /\ InitHist

NextOwnership ==
    \/ FirstCall /\ Detect
    \/ FirstCall /\ Apply
    \/ FirstCall /\ Remove
    \/ FirstCall /\ Backup
    \/ FirstCall /\ Restore
    \/ FirstCall /\ Create
    \/ FirstCall /\ CreateIdentifierOnly
    \/ FirstCall /\ EnsureOriginal
    \/ FirstCall /\ Delete
    \/ FirstCall /\ RestoreToken
    \/ FirstCall /\ List
    \/ FirstCall /\ ReadIdentifier
    \/ FirstCall /\ ReadToken
    \/ FirstCall /\ UpdateToken
    \/ FirstCall /\ SoftReset
    \/ FirstCall /\ RestoreOriginal
    \/ FirstCall /\ Status
    \/ FirstCall /\ Reset

SpecOwnership == InitOwnership /\ [][NextOwnership]_vars

\* the contents the tool is first run on: short ones without start marker,
\* and ones whose markers lie beyond the part detection reads
PurityContents ==
    SeqsUpTo({"x", PatchEndMarker}, MaxLen)
    \cup {<<"PAD", "x">> \o c : c \in SeqsUpTo({PatchMarker, PatchEndMarker}, MaxLen - 2)}

\* an installation whose artifact detection reports as unpatched, without
\* sibling backup; its content is remembered
InitPurity ==
    /\ extJS \in {File(c) : c \in PurityContents}
    /\ ~IsPatched(PatchFS(extJS, NoFile)).val /\ ~IsOldPatched(PatchFS(extJS, NoFile)).val
    /\ extBackup = NoFile
    /\ DefaultSoft /\ DefaultCache /\ DefaultStore /\ DefaultOS
    /\ pre = Snapshot /\ last = NoOp /\ prev = NoPrev /\ procs = NoProcs
    /\ seen = [NoSeen EXCEPT !.artifact = extJS.data]

\* softReset() that generates one given identifier
SoftResetPlain ==
    \E fault \in SoftFaults :
        LET r == SoftResetEnvironment(customId, PatchFS(extJS, extBackup),
                                      [dir |-> cacheDir, token |-> liveToken], fault,
                                      [n |-> 1, up |-> FALSE])
        IN  /\ customId' = r.custom
            /\ extJS' = r.fs.ext
            /\ extBackup' = r.fs.bak
            /\ cacheDir' = r.cache.dir
            /\ liveToken' = r.cache.token
            /\ Hist([NoOp EXCEPT !.op = "softReset", !.fault = fault, !.err = r.err,
                                 !.soft = r.res])
            /\ UNCHANGED <<goos, machineGuid, idReadable, backups, rootDir>>

NextPurity == Apply \/ Remove \/ SoftResetPlain \/ RestoreOriginal

SpecPurity == InitPurity /\ [][NextPurity]_vars

\* a logged-in installation with an artifact, with or without a snapshot
InitLive ==
    /\ \E w \in {NoEntry,
                 Dir(File(OtherToken), File(MachineIDBackup([n |-> 1, up |-> FALSE])))} :
          /\ backups = [n \in EntryNames |-> IF n = "work" THEN w ELSE NoEntry]
          /\ rootDir = (w # NoEntry)
    /\ cacheDir = TRUE /\ liveToken \in {File(t) : t \in Tokens}
    /\ goos = "windows"
    /\ machineGuid = [n |-> 1, up |-> TRUE]
    /\ idReadable = TRUE
    /\ extJS = File(<<"x">>) /\ extBackup = NoFile
    /\ DefaultSoft
    /\ InitHist

\* resetEnvironment(skipBackupCheck) that generates one given identifier
ResetPlain ==
    \E skip \in BOOLEAN, fault \in ResetFaults :
        LET r == ResetEnvironment(goos, machineGuid, idReadable, backups,
                                  [dir |-> cacheDir, token |-> liveToken], skip,
                                  fault, [n |-> 1, up |-> FALSE])
        IN  /\ cacheDir' = r.cache.dir
            /\ liveToken' = r.cache.token
            /\ machineGuid' = r.guid
            /\ Hist([NoOp EXCEPT !.op = "reset", !.skip = skip, !.fault = fault,
                                 !.err = r.err, !.res = r.res, !.eff = r.eff])
            /\ UNCHANGED <<goos, extJS, extBackup, customId, idReadable, backups, rootDir>>

\* the three resets, create(name) and restoreToken(name)
NextLive == SoftResetPlain \/ RestoreOriginal \/ ResetPlain \/ Create \/ RestoreToken

SpecLive == InitLive /\ [][NextLive]_vars

\* a machine whose only snapshot is the identifier-only original snapshot of
\* its current identifier
InitFresh ==
    /\ backups = [n \in EntryNames |->
                     IF n = OriginalBackupName
                     THEN Dir(NoToken, File(MachineIDBackup([n |-> 1, up |-> FALSE])))
                     ELSE NoEntry]
    /\ rootDir = TRUE
    /\ goos = "windows"
    /\ machineGuid \in {[n |-> 1, up |-> u] : u \in BOOLEAN}
    /\ idReadable = TRUE
    /\ InitCache
    /\ DefaultPatch /\ DefaultSoft
    /\ InitHist

NextFresh == Reset \/ CreateIdentifierOnly

SpecFresh == InitFresh /\ [][NextFresh]_vars

\* the artifacts of every patch state a soft reset may find, among them the
\* one that two interleaved apply() calls leave behind
AfterSoftArtifacts == SoftArtifacts \cup {File(patchCode \o patchCode \o <<"x">>)}

InitAfterSoft ==
    /\ extJS \in AfterSoftArtifacts
    /\ extBackup \in {NoFile, File(<<"x">>)}
    /\ customId \in StatusOverrides
    /\ InitCache
    /\ DefaultStore /\ DefaultOS
    /\ InitHist

NextAfterSoft == SoftReset \/ Status

SpecAfterSoft == InitAfterSoft /\ [][NextAfterSoft]_vars

\* soft resets and restores on a machine without override, with an artifact
\* or (so that the patch step fails) without one
InitChain ==
    /\ extJS \in {NoFile, File(<<"x">>)}
    /\ extBackup = NoFile
    /\ DefaultSoft
    /\ InitCache
    /\ DefaultStore /\ DefaultOS
    /\ InitHist

NextChain == SoftReset \/ RestoreOriginal

SpecChain == InitChain /\ [][NextChain]_vars

\* delete(name) for names with "." and ".." elements and separators
DeleteAt ==
    \E name \in PathNames, rmOk \in BOOLEAN :
        LET r == DeleteBackupAt(rootDir, backups, name, rmOk)
        IN  /\ backups' = r.b
            /\ rootDir' = r.root
            /\ Hist([NoOp EXCEPT !.op = "delete", !.parts = name, !.path = r.path,
                                 !.fault = IF rmOk THEN "none" ELSE "rm", !.err = r.err])
            /\ UNCHANGED <<goos, extJS, extBackup, customId, cacheDir, liveToken,
                           machineGuid, idReadable>>

InitPaths ==
    /\ DefaultPatch /\ DefaultSoft /\ DefaultCache
    /\ goos = "windows" /\ idReadable = TRUE
    /\ machineGuid \in {[n |-> 1, up |-> FALSE]}
    /\ backups \in [EntryNames -> {NoEntry, Dir(NoToken, File(MachineIDBackup([n |-> 1, up |-> FALSE])))}]
    /\ rootDir = TRUE
    /\ InitHist

NextPaths == DeleteAt \/ CreateIdentifierOnly

SpecPaths == InitPaths /\ [][NextPaths]_vars

\* the responses CalculateBalance is applied to: nil, breakdown lists with
\* free trials and bonuses, and one base quota with larger amounts
WideAmounts == 0..(3 * MaxAmount)
BalanceResponses ==
    {NoResponse}
    \cup [err : {"nil"}, title : {"TEST"}, list : SeqsUpTo(UsageBreakdowns, 2)]
    \cup [err : {"nil"}, title : {"TEST"},
          list : {<<[limit |-> l, usage |-> u, trial |-> <<>>, bonuses |-> <<>>]>> :
                     l \in WideAmounts, u \in WideAmounts}]

\* CalculateBalance(response)
Balance ==
    \E response \in BalanceResponses :
        /\ Hist([NoOp EXCEPT !.op = "balance", !.api = response,
                             !.usage = [nil |-> FALSE, panic |-> FALSE,
                                        info |-> CalculateBalance(response)]])
        /\ UNCHANGED <<goos, extJS, extBackup, customId, cacheDir, liveToken,
                       machineGuid, idReadable, backups, rootDir>>

\* one call of CalculateBalance per behaviour
NextBalance == FirstCall /\ Balance

SpecBalance == InitUsage /\ [][NextBalance]_vars

(***************************************************************************)
(* Properties of the hard reset (SpecReset).                               *)
(***************************************************************************)
\* a snapshot of store b holds identifier id, compared without regard to case
SnapshotMatches(b, id) ==
    \E n \in EntryNames :
        /\ b[n].kind = "dir"
        /\ b[n].mid.exists
        /\ b[n].mid.data.valid
        /\ b[n].mid.data.machineId.n = id.n

InEffects(e) == \E i \in DOMAIN last.eff : last.eff[i] = e
StoreWriteAttempted == InEffects("writeStore") \/ InEffects("writeStoreFailed")

\* C1: resetEnvironment(skipBackupCheck) writes (or tries to write) the system
\* identity store only if skipBackupCheck is true or some snapshot's identifier
\* half equals the current raw identifier case-insensitively; with
\* skipBackupCheck false and no matching snapshot the call fails, BackupRequired
\* once the check has been made, having neither cleared the session cache nor
\* written the system store.
C1_HardResetSafety ==
    last.op = "reset" =>
        /\ StoreWriteAttempted => (last.skip \/ SnapshotMatches(pre.backups, pre.machineGuid))
        /\ (~last.skip /\ ~SnapshotMatches(pre.backups, pre.machineGuid)) =>
              /\ last.err # "nil"
              /\ (goos = "windows" /\ idReadable /\ last.fault # "list")
                     => last.err = "ErrBackupRequired"
              /\ cacheDir = pre.cacheDir /\ liveToken = pre.liveToken
              /\ machineGuid = pre.machineGuid
              /\ ~last.res.CacheCleared /\ ~last.res.MachineIDChanged

\* a reset without the skip flag that found only snapshots of another
\* identifier and refused, the session cache still in place
C1_Witness ==
    /\ last.op = "reset" /\ ~last.skip /\ last.err = "ErrBackupRequired"
    /\ \E n \in EntryNames : pre.backups[n].kind = "dir" /\ pre.backups[n].mid.exists
    /\ pre.cacheDir /\ cacheDir /\ liveToken.exists

\* C10: resetEnvironment clears the session cache strictly before it attempts
\* the system-store write; when the write fails (a denied write is reported as
\* RequiresAdmin) the result has CacheCleared = true, OldMachineID and
\* NewMachineID set and MachineIDChanged = false, the cache stays cleared and
\* the system identifier is unchanged; MachineIDChanged is true only when the
\* call returns no error.
C10_ResetStepOrder ==
    last.op = "reset" =>
        /\ \A i \in DOMAIN last.eff :
              last.eff[i] \in {"writeStore", "writeStoreFailed"} =>
                  \E j \in 1..(i - 1) : last.eff[j] = "clearCache"
        /\ InEffects("writeStoreFailed") =>
              /\ last.err # "nil"
              /\ last.fault = "denied" <=> last.err = "ErrRequiresAdmin"
              /\ ~last.res.isNil
              /\ last.res.CacheCleared
              /\ last.res.OldMachineID = ToLower(pre.machineGuid)
              /\ last.res.NewMachineID \in Ids
              /\ ~last.res.MachineIDChanged
              /\ ~cacheDir /\ ~liveToken.exists
              /\ machineGuid = pre.machineGuid
        /\ last.fault \in {"denied", "failed"} /\ last.err = "nil" => FALSE
        /\ last.res.MachineIDChanged => last.err = "nil"

\* a reset whose registry write was denied after it had removed an existing
\* session cache
C10_Witness ==
    /\ last.op = "reset" /\ last.err = "ErrRequiresAdmin"
    /\ pre.cacheDir /\ pre.liveToken.exists /\ ~cacheDir
    /\ last.res.CacheCleared /\ ~last.res.MachineIDChanged
    /\ machineGuid = pre.machineGuid

(***************************************************************************)
(* Properties of the snapshot registry (SpecStore).                        *)
(***************************************************************************)
\* C6: when create(name) or createIdentifierOnly(name) returns an error, no
\* snapshot directory of that name exists afterwards unless it existed before,
\* every pre-existing snapshot is unchanged, and no snapshot holding only some
\* of its intended files is left behind.
C6_CreateAllOrNothing ==
    last.op \in {"create", "createIdOnly"} =>
        /\ last.err # "nil" =>
              /\ \A n \in EntryNames :
                    backups[n].kind = "dir" => pre.backups[n].kind = "dir"
              /\ \A n \in EntryNames :
                    pre.backups[n].kind = "dir" => backups[n] = pre.backups[n]
              /\ backups = pre.backups
        /\ \A n \in EntryNames :
              (backups[n].kind = "dir" /\ pre.backups[n].kind # "dir") =>
                  /\ last.err = "nil" /\ last.name = n
                  /\ backups[n].mid.exists
                  /\ last.op = "create" => backups[n].token.exists

\* a create that had copied the token and then failed to write the identifier
\* half, leaving no directory
C6_Witness ==
    /\ last.op = "create" /\ last.err = "failed to write machine id"
    /\ last.name \in EntryNames
    /\ pre.backups[last.name].kind = "none"
    /\ backups[last.name].kind = "none"
    /\ \E n \in EntryNames : backups[n].kind = "dir"

\* C7: create(name) fails with InvalidName when name is empty, with
\* AlreadyExists when a snapshot directory of that name exists (whether or not
\* a live token exists, and leaving that snapshot unchanged), and with
\* NoTokenToBackup when the name is free but no live token file exists; it
\* succeeds only when none of these holds.
C7_CreateValidation ==
    last.op = "create" =>
        /\ last.name = "" => last.err = "ErrInvalidBackupName"
        /\ (last.name # "" /\ pre.backups[last.name].kind = "dir") =>
              (last.err = "ErrBackupExists" /\ backups = pre.backups)
        /\ (last.name # "" /\ pre.backups[last.name].kind = "none" /\ ~pre.liveToken.exists)
              => last.err = "ErrNoTokenToBackup"
        /\ last.err = "nil" =>
              /\ last.name # ""
              /\ pre.backups[last.name].kind # "dir"
              /\ pre.liveToken.exists
              /\ backups[last.name].kind = "dir"

\* a create of an existing name while no live token exists: AlreadyExists
C7_Witness ==
    /\ last.op = "create" /\ last.err = "ErrBackupExists"
    /\ ~pre.liveToken.exists
    /\ pre.backups[last.name].token.exists

(***************************************************************************)
(* Properties of the Patch Engine (SpecPatch).                             *)
(***************************************************************************)
\* the PatchState of a file, from the start markers in its first PrefixLen bytes
MarkerInPrefix(f, m) ==
    \E i \in DOMAIN f.data :
        f.data[i] = m /\ Offset(f.data, i) + MarkerLen <= PrefixLen
PatchedCurrent(f) == f.exists /\ MarkerInPrefix(f, "V3")
PatchedStale(f) ==
    f.exists /\ ~MarkerInPrefix(f, "V3") /\ (MarkerInPrefix(f, "V1") \/ MarkerInPrefix(f, "V2"))
Unpatched(f) == f.exists /\ \A m \in {"V1", "V2", "V3"} : ~MarkerInPrefix(f, m)

Occurrences(d, m) == Cardinality({i \in DOMAIN d : d[i] = m})
HasEnd(d) == \E i \in DOMAIN d : d[i] = "END"
\* what follows the first end marker of d and the newline right after it
AfterFirstEnd(d) ==
    LET k == CHOOSE i \in DOMAIN d : d[i] = "END" /\ \A j \in 1..(i - 1) : d[j] # "END"
        from == IF k < Len(d) /\ d[k + 1] = "NL" THEN k + 2 ELSE k + 1
    IN  [i \in 1..(Len(d) - from + 1) |-> d[from + i - 1]]
CurrentPayload == <<"V3", "NL", "BODY", "END", "NL">>

\* C2 as claimed: for any artifact content, apply() twice in succession leaves
\* the artifact PatchedCurrent with exactly one occurrence of the current start
\* marker, the second apply() changing neither the artifact nor its backup.
C2_Original ==
    (last.op = "apply" /\ prev.op = "apply" /\ prev.ext.exists) =>
        /\ PatchedCurrent(extJS)
        /\ Occurrences(extJS.data, "V3") = 1
        /\ extJS = pre.extJS /\ extBackup = pre.extBackup

\* C2 as amended: for any artifact content on which the first apply() succeeds,
\* apply() twice in succession leaves the artifact PatchedCurrent, the second
\* apply() succeeding as a no-op that leaves the artifact and its sibling backup
\* byte-identical to what the first produced; the artifact then holds exactly one
\* occurrence of the current start marker provided neither the original artifact
\* nor its sibling backup held one.
C2_ApplyIdempotent ==
    (last.op = "apply" /\ prev.op = "apply" /\ prev.ext.exists /\ prev.err = "nil") =>
        /\ last.err = "nil"
        /\ PatchedCurrent(extJS)
        /\ extJS = pre.extJS /\ extBackup = pre.extBackup
        /\ (Occurrences(prev.ext.data, "V3") = 0 /\ Occurrences(prev.bak.data, "V3") = 0)
              => Occurrences(extJS.data, "V3") = 1

\* two applies on an artifact that was Unpatched and is now patched once
C2_Witness ==
    /\ last.op = "apply" /\ prev.op = "apply" /\ prev.err = "nil" /\ last.err = "nil"
    /\ Unpatched(prev.ext) /\ Len(prev.ext.data) > 0
    /\ PatchedCurrent(extJS) /\ Occurrences(extJS.data, "V3") = 1
    /\ extBackup = prev.ext

\* C3: for every Unpatched artifact content C, apply() followed by remove()
\* leaves the artifact byte-identical to C; remove() on a patched artifact that
\* holds an end marker strips everything up to and including the first end
\* marker plus one trailing newline and writes back only the remainder.
C3_PatchRoundTrip ==
    /\ (last.op = "remove" /\ prev.op = "apply" /\ Unpatched(prev.ext)) =>
           (last.err = "nil" /\ extJS = prev.ext)
    /\ (last.op = "remove" /\ pre.extJS.exists /\ ~Unpatched(pre.extJS)
           /\ HasEnd(pre.extJS.data)) =>
           (last.err = "nil" /\ extJS = File(AfterFirstEnd(pre.extJS.data)))

\* apply() then remove() on an Unpatched artifact that begins with a newline
\* and itself holds an end marker
C3_Witness ==
    /\ last.op = "remove" /\ prev.op = "apply" /\ Unpatched(prev.ext)
    /\ Len(prev.ext.data) > 1 /\ prev.ext.data[1] = "NL" /\ HasEnd(prev.ext.data)
    /\ PatchedCurrent(pre.extJS)
    /\ extJS = prev.ext

\* the start markers detected in f are V1 alone or V2 alone
OnlyOneStaleMarker(f) ==
    /\ ~MarkerInPrefix(f, "V3")
    /\ MarkerInPrefix(f, "V1") # MarkerInPrefix(f, "V2")

\* C4 as claimed: on an artifact whose detected marker is only V1 or only V2,
\* apply() removes the stale payload and injects the current one: afterwards
\* exactly the V3 start marker is present, no V1 or V2 marker remains and the
\* content below the payload is unchanged.
C4_Original ==
    (last.op = "apply" /\ pre.extJS.exists /\ OnlyOneStaleMarker(pre.extJS)) =>
        /\ last.err = "nil"
        /\ PatchedCurrent(extJS)
        /\ Occurrences(extJS.data, "V3") = 1
        /\ Occurrences(extJS.data, "V1") = 0 /\ Occurrences(extJS.data, "V2") = 0
        /\ HasEnd(pre.extJS.data)
        /\ extJS.data = CurrentPayload \o AfterFirstEnd(pre.extJS.data)

\* C4 as amended: on a PatchedStale artifact (V1 or V2 detected, V3 not) that
\* holds an end marker, apply() removes everything through the first end marker
\* and one trailing newline and injects the current payload: afterwards the
\* artifact is the current payload followed by the unchanged content below the
\* stale payload, V3 is the only start marker detected, and no V1 or V2 marker
\* remains unless that content holds one.
C4_StaleUpgrade ==
    (last.op = "apply" /\ PatchedStale(pre.extJS) /\ HasEnd(pre.extJS.data)) =>
        LET below == AfterFirstEnd(pre.extJS.data)
        IN  /\ last.err = "nil"
            /\ extJS = File(CurrentPayload \o below)
            /\ PatchedCurrent(extJS)
            /\ ~MarkerInPrefix(extJS, "V1") /\ ~MarkerInPrefix(extJS, "V2")
            /\ \A m \in {"V1", "V2"} : Occurrences(extJS.data, m) = Occurrences(below, m)
            /\ Occurrences(extJS.data, "V3") = 1 + Occurrences(below, "V3")

\* an apply() that upgraded a V2 payload, content below it kept
C4_Witness ==
    /\ last.op = "apply" /\ last.err = "nil"
    /\ pre.extJS.exists /\ Len(pre.extJS.data) = 3
    /\ pre.extJS.data[1] = "V2" /\ pre.extJS.data[2] = "END" /\ pre.extJS.data[3] = "x"
    /\ extJS.data = CurrentPayload \o <<"x">>

\* C8: apply() never overwrites the sibling backup: it creates the backup only
\* when none exists, as a copy of the unpatched artifact, and leaves an existing
\* backup's content unchanged; remove() changes a backup only by deleting it.
C8_BackupNeverOverwritten ==
    /\ (last.op = "apply" /\ pre.extBackup.exists) => extBackup = pre.extBackup
    /\ (last.op = "apply" /\ ~pre.extBackup.exists /\ extBackup.exists) =>
           (last.err = "nil" /\ extJS.data = CurrentPayload \o extBackup.data)
    /\ (last.op = "remove" /\ pre.extBackup.exists) => extBackup \in {pre.extBackup, NoFile}
    /\ (last.op = "remove" /\ ~pre.extBackup.exists) => ~extBackup.exists

\* an apply() that patched the artifact while a backup of other content existed
C8_Witness ==
    /\ last.op = "apply" /\ last.err = "nil"
    /\ pre.extBackup.exists /\ pre.extJS.exists
    /\ pre.extBackup.data # pre.extJS.data
    /\ extJS # pre.extJS
    /\ extBackup = pre.extBackup
    /\ prev.op = "remove"

\* C9: remove() on an artifact in which a current or stale start marker is
\* detected but that holds no end marker replaces the artifact with the content
\* of the sibling backup and then deletes the backup; without a backup it fails
\* with BackupNotFound and leaves the artifact unchanged.
C9_RemoveRecovery ==
    (last.op = "remove" /\ pre.extJS.exists /\ ~Unpatched(pre.extJS)
        /\ ~HasEnd(pre.extJS.data)) =>
        IF pre.extBackup.exists
        THEN last.err = "nil" /\ extJS = File(pre.extBackup.data) /\ ~extBackup.exists
        ELSE last.err = "ErrBackupNotFound" /\ extJS = pre.extJS /\ ~extBackup.exists

\* a remove() that found a start marker and no end marker and restored the
\* artifact from a backup of other content
C9_Witness ==
    /\ last.op = "remove" /\ last.err = "nil"
    /\ pre.extJS.exists /\ ~Unpatched(pre.extJS) /\ ~HasEnd(pre.extJS.data)
    /\ pre.extBackup.exists /\ pre.extBackup.data # pre.extJS.data
    /\ extJS.data = pre.extBackup.data /\ ~extBackup.exists

\* C13 as claimed: starting from an Unpatched artifact with no sibling backup,
\* after apply() followed by remove() the sibling backup no longer exists.
C13_Original ==
    (last.op = "remove" /\ prev.op = "apply" /\ Unpatched(prev.ext) /\ ~prev.bak.exists)
        => ~extBackup.exists

\* C13 as amended: starting from an Unpatched artifact with no sibling backup,
\* after apply() followed by remove() the sibling backup still exists and holds
\* the original content of the artifact, byte for byte.
C13_BackupKept ==
    (last.op = "remove" /\ prev.op = "apply" /\ Unpatched(prev.ext) /\ ~prev.bak.exists)
        => (last.err = "nil" /\ extBackup = File(prev.ext.data) /\ extJS = prev.ext)

\* apply() then remove() on a non-empty Unpatched artifact that had no backup
C13_Witness ==
    /\ last.op = "remove" /\ prev.op = "apply" /\ last.err = "nil"
    /\ Unpatched(prev.ext) /\ ~prev.bak.exists /\ Len(prev.ext.data) > 0
    /\ PatchedCurrent(pre.extJS)
    /\ extBackup.exists /\ extBackup.data = prev.ext.data

(***************************************************************************)
(* Properties of the soft controller (SpecSoft).                           *)
(***************************************************************************)
\* C11: the result and the effects of softReset correspond to the steps
\* completed.  If persisting the override fails, the error is returned with
\* Patched = false and CacheCleared = false and neither the artifact (or its
\* backup) nor the session cache is touched; if the patch step fails, the
\* override file holds result.NewMachineID, Patched = false, CacheCleared =
\* false and the cache is not cleared; if the cache clear fails, Patched = true
\* and CacheCleared = false; the error is nil exactly when CacheCleared = true.
C11_SoftResetProgress ==
    last.op = "softReset" =>
        LET cacheSame == cacheDir = pre.cacheDir /\ liveToken = pre.liveToken
            patchSame == extJS = pre.extJS /\ extBackup = pre.extBackup
            overrideHeld == customId = [exists |-> TRUE, data |-> last.soft.NewMachineID]
        IN  /\ ~last.soft.isNil
            /\ last.soft.NewMachineID \in Ids
            /\ last.soft.OldMachineID = ReadCustomMachineID(pre.customId).id
            /\ (last.err = "nil") <=> last.soft.CacheCleared
            /\ last.soft.CacheCleared => last.soft.Patched
            /\ last.fault \in {"mkdir", "write"} <=> last.err \in {"mkdir failed", "write failed"}
            /\ last.err \in {"mkdir failed", "write failed"} =>
                  /\ ~last.soft.Patched /\ ~last.soft.CacheCleared
                  /\ patchSame /\ cacheSame
            /\ last.err \in {"ErrExtensionNotFound", "ErrBackupNotFound"} =>
                  /\ overrideHeld
                  /\ ~last.soft.Patched /\ ~last.soft.CacheCleared
                  /\ ~PatchedCurrent(extJS)
                  /\ cacheSame
            /\ last.err = "remove failed" =>
                  /\ pre.cacheDir /\ cacheSame
                  /\ last.soft.Patched /\ ~last.soft.CacheCleared
            /\ last.err \in {"nil", "mkdir failed", "write failed", "ErrExtensionNotFound",
                             "ErrBackupNotFound", "remove failed"}
            /\ last.soft.Patched => (overrideHeld /\ PatchedCurrent(extJS))
            /\ last.soft.CacheCleared => (~cacheDir /\ ~liveToken.exists)

\* a softReset that wrote the override and patched the artifact and then
\* failed to clear an existing session cache
C11_Witness ==
    /\ last.op = "softReset" /\ last.fault = "rm" /\ last.err = "remove failed"
    /\ last.soft.Patched /\ ~last.soft.CacheCleared
    /\ Unpatched(pre.extJS) /\ PatchedCurrent(extJS)
    /\ cacheDir /\ customId.data = last.soft.NewMachineID

\* C12: on every failure path of softReset and of resetEnvironment (a failure
\* to read the current identifier, an error while checking the snapshots and
\* the platform gate included) the operation returns a non-nil, populated
\* partial result together with the error.
C12_PartialResultAlways ==
    /\ (last.op = "softReset" /\ last.err # "nil") => ~last.soft.isNil
    /\ (last.op = "reset" /\ last.err # "nil") => ~last.res.isNil

\* C20: restoreOriginal() deletes the override file (succeeding when it is
\* already absent) and then clears the session cache; it never modifies the
\* artifact or its sibling backup, so a PatchedCurrent artifact stays patched;
\* if deleting the override fails the cache is not cleared.
C20_RestoreOriginalFrame ==
    last.op = "restoreOriginal" =>
        /\ extJS = pre.extJS /\ extBackup = pre.extBackup
        /\ PatchedCurrent(pre.extJS) => PatchedCurrent(extJS)
        /\ last.err = "nil" => (~customId.exists /\ ~cacheDir /\ ~liveToken.exists)
        /\ (~pre.customId.exists /\ last.fault # "rm") => last.err = "nil"
        /\ last.fault = "none" => last.err = "nil"
        /\ (last.fault = "rmId" /\ pre.customId.exists) =>
              /\ last.err # "nil"
              /\ customId = pre.customId
              /\ cacheDir = pre.cacheDir /\ liveToken = pre.liveToken
        /\ (last.fault = "rm" /\ pre.cacheDir) =>
              (last.err # "nil" /\ ~customId.exists /\ cacheDir)

\* a restoreOriginal that removed an override and the session cache and left
\* the patched artifact in place
C20_Witness ==
    /\ last.op = "restoreOriginal" /\ last.err = "nil"
    /\ pre.customId.exists /\ ~customId.exists
    /\ pre.cacheDir /\ pre.liveToken.exists /\ ~cacheDir
    /\ PatchedCurrent(pre.extJS) /\ PatchedCurrent(extJS)

(***************************************************************************)
(* Properties of token updates (SpecToken).                                *)
(***************************************************************************)
\* C5: for every stored token object T and every (newAccess, newExpiry),
\* updateToken leaves a token whose accessToken and expiresAt equal the new
\* values and in which every other key of T is still present with an unchanged
\* value, no other key being added or removed.
C5_FieldsPreserved ==
    (last.op = "updateToken" /\ last.err = "nil") =>
        LET before == pre.backups[last.name].token.data.obj
            after == backups[last.name].token.data.obj
        IN  /\ backups[last.name].token.exists
            /\ after["accessToken"] = Leaf(Str(last.access))
            /\ after["expiresAt"] = Leaf(Str(last.expiry))
            /\ \A k \in TokenKeys \ {"accessToken", "expiresAt"} : after[k] = before[k]

(***************************************************************************)
(* Properties of the snapshot registry over its life (SpecRegistry)        *)
(***************************************************************************)

\* C14: ensureOriginalSnapshot is idempotent and independent of the token.  It
\* reports "created" only when the reserved snapshot was absent, and the
\* snapshot exists afterwards, so at most once per absence; when the snapshot
\* was absent and the identifier could be read and written, it is created with
\* its identifier half present and its token half absent, whether or not a
\* live token exists; when the snapshot was present the call reports "already
\* present" without error and leaves every snapshot file unchanged.  The call
\* touches no other snapshot and nothing outside the registry.
C14_EnsureOriginalIdempotent ==
    last.op = "ensureOriginal" =>
        LET was == pre.backups[OriginalBackupName]
            now == backups[OriginalBackupName]
        IN  /\ last.created => (was.kind # "dir" /\ now.kind = "dir" /\ last.err = "nil")
            /\ (was.kind = "none" /\ idReadable /\ last.fault = "none") =>
                   /\ last.created
                   /\ now = Dir(NoToken, File(MachineIDBackup(ToLower(pre.machineGuid))))
            /\ was.kind = "dir" =>
                   (~last.created /\ last.err = "nil" /\ backups = pre.backups)
            /\ ~last.created => now = was
            /\ \A n \in EntryNames \ {OriginalBackupName} : backups[n] = pre.backups[n]
            /\ liveToken = pre.liveToken /\ cacheDir = pre.cacheDir
            /\ machineGuid = pre.machineGuid /\ customId = pre.customId

\* a second call on a machine without live token: the reserved snapshot made
\* by the first call is reported as already present
C14_Witness ==
    /\ last.op = "ensureOriginal" /\ ~last.created /\ last.err = "nil"
    /\ seen.ran /\ ~liveToken.exists /\ ~seen.made[OriginalBackupName].exists
    /\ seen.madeId[OriginalBackupName] = seen.first
    /\ backups[OriginalBackupName] = Dir(NoToken, File(MachineIDBackup(seen.first)))

(***************************************************************************)
(* The reserved snapshot over substitutions of the identifier (SpecOrigin) *)
(***************************************************************************)

\* C15: in every state reached by ensureOriginalSnapshot, delete, softReset
\* and resetEnvironment, whenever the reserved original snapshot exists and
\* ensureOriginalSnapshot has run, the identifier half of the snapshot is
\* present and holds the raw identifier that was in effect when
\* ensureOriginalSnapshot first ran.
C15_OriginalIsFirstObserved ==
    (seen.ran /\ backups[OriginalBackupName].kind = "dir") =>
        /\ backups[OriginalBackupName].mid.exists
        /\ backups[OriginalBackupName].mid.data.valid
        /\ backups[OriginalBackupName].mid.data.machineId = seen.first

(***************************************************************************)
(* Full snapshots while the live token and the identifier change           *)
(* (SpecSnapshot)                                                          *)
(***************************************************************************)

\* C16: restoreToken(name) fails with InvalidName for the empty name and with
\* NotFound when the snapshot directory does not exist, changing nothing; it
\* fails and leaves the live token unchanged when the snapshot has no token
\* half; when it succeeds the live token is byte-identical to the token half
\* of the snapshot and the session-cache directory exists, created if it was
\* absent; the call never changes a snapshot.  Hence a successful restore of a
\* snapshot taken by create brings the live token back to its content at the
\* time of that create, whatever happened to the live token in between.
C16_RestoreToken ==
    last.op = "restoreToken" =>
        LET was == pre.backups[last.name]
        IN  /\ backups = pre.backups
            /\ last.name = "" =>
                   (last.err = "ErrInvalidBackupName"
                    /\ liveToken = pre.liveToken /\ cacheDir = pre.cacheDir)
            /\ (last.name # "" /\ was.kind # "dir") =>
                   (last.err = "ErrBackupNotFound"
                    /\ liveToken = pre.liveToken /\ cacheDir = pre.cacheDir)
            /\ (last.name # "" /\ was.kind = "dir" /\ ~was.token.exists) =>
                   (last.err # "nil"
                    /\ liveToken = pre.liveToken /\ cacheDir = pre.cacheDir)
            /\ (last.name # "" /\ was.kind = "dir" /\ was.token.exists
                /\ last.fault = "none") => last.err = "nil"
            /\ last.err = "nil" =>
                   /\ was.kind = "dir" /\ was.token.exists
                   /\ cacheDir /\ liveToken = was.token
                   /\ seen.made[last.name].exists => liveToken = seen.made[last.name]

\* a snapshot taken by create is restored after a reset removed the session
\* cache: the directory is created again and the token of the create is back
C16_Witness ==
    /\ last.op = "restoreToken" /\ last.err = "nil"
    /\ ~pre.cacheDir /\ ~pre.liveToken.exists
    /\ seen.made[last.name].exists
    /\ cacheDir /\ liveToken = seen.made[last.name]

(***************************************************************************)
(* Deleting and listing snapshots (SpecRegistry)                           *)
(***************************************************************************)

\* C17: delete(name) fails with InvalidName for the empty name and with
\* NotFound when the snapshot directory does not exist, changing nothing; when
\* it succeeds the whole snapshot tree is gone, the name is no longer listed,
\* and every other snapshot is unchanged.  Nothing outside the registry is
\* touched.
C17_Delete ==
    last.op = "delete" =>
        /\ last.name = "" => (last.err = "ErrInvalidBackupName" /\ backups = pre.backups)
        /\ (last.name # "" /\ pre.backups[last.name].kind # "dir") =>
               (last.err = "ErrBackupNotFound" /\ backups = pre.backups)
        /\ (last.name # "" /\ pre.backups[last.name].kind = "dir" /\ last.fault = "none") =>
               last.err = "nil"
        /\ last.err = "nil" =>
               /\ pre.backups[last.name].kind = "dir"
               /\ backups[last.name] = NoEntry
               /\ last.name \notin ListBackups(backups)
               /\ \A i \in ListBackupInfos(rootDir, backups, TRUE).infos : i.Name # last.name
        /\ \A n \in EntryNames \ {last.name} : backups[n] = pre.backups[n]
        /\ liveToken = pre.liveToken /\ cacheDir = pre.cacheDir
        /\ machineGuid = pre.machineGuid /\ customId = pre.customId

\* a snapshot holding both halves is deleted while another snapshot exists
C17_Witness ==
    /\ last.op = "delete" /\ last.err = "nil"
    /\ pre.backups[last.name].token.exists /\ pre.backups[last.name].mid.exists
    /\ backups[last.name] = NoEntry
    /\ \E n \in EntryNames \ {last.name} :
           backups[n].kind = "dir" /\ backups[n].mid.exists

\* C18: list() reflects the registry exactly.  When the registry root does
\* not exist it returns an empty list without error; otherwise, unless the
\* root cannot be read, it returns without error exactly one entry per
\* existing snapshot directory and none for an entry that is not a directory;
\* hasToken and hasMachineId of an entry are true exactly when the respective
\* file is present in that snapshot; a missing or unparsable identifier half
\* yields an empty backup time, not an error.  list() changes nothing.
C18_ListExact ==
    last.op = "list" =>
        /\ ~rootDir => (last.err = "nil" /\ last.infos = {} /\ last.len = 0)
        /\ last.fault = "none" => last.err = "nil"
        /\ (rootDir /\ last.err = "nil") =>
               /\ last.len = Cardinality({n \in EntryNames : backups[n].kind = "dir"})
               /\ Cardinality(last.infos) = last.len
               /\ \A n \in EntryNames :
                      IF backups[n].kind = "dir"
                      THEN \E i \in last.infos :
                               /\ i.Name = n
                               /\ \A j \in last.infos : j.Name = n => j = i
                               /\ i.HasToken = backups[n].token.exists
                               /\ i.HasMachineID = backups[n].mid.exists
                               /\ (~backups[n].mid.exists \/ ~backups[n].mid.data.valid) =>
                                      i.BackupTime = ""
                      ELSE \A i \in last.infos : i.Name # n
        /\ backups = pre.backups /\ rootDir = pre.rootDir
        /\ liveToken = pre.liveToken /\ cacheDir = pre.cacheDir

\* a listing of two snapshots: one whose identifier half is present but does
\* not parse, and the reserved one, which has no token half
C18_Witness ==
    /\ last.op = "list" /\ last.err = "nil" /\ last.len = 2
    /\ \E i \in last.infos : i.HasToken /\ i.HasMachineID /\ i.BackupTime = ""
    /\ \E i \in last.infos :
           i.Name = OriginalBackupName /\ ~i.HasToken /\ i.HasMachineID
                                       /\ i.BackupTime = "rfc3339"

(***************************************************************************)
(* Snapshots are taken from the live state and then stand alone            *)
(* (SpecSnapshot)                                                          *)
(***************************************************************************)

\* C19: after a successful create(name) the snapshot's token half is
\* byte-identical to the live token at the time of the call and its
\* identifier half records the raw OS identifier current at that time (the
\* soft override plays no part) together with the creation timestamp; and in
\* every later state, whatever resets and restores have done to the live token
\* and to the system identifier, that snapshot still holds the token and the
\* identifier of its creation.
C19_SnapshotStandsAlone ==
    /\ (last.op = "create" /\ last.err = "nil") =>
           /\ pre.liveToken.exists
           /\ backups[last.name] =
                  Dir(pre.liveToken, File(MachineIDBackup(ToLower(pre.machineGuid))))
           /\ backups[last.name].mid.data.backupTime = "rfc3339"
           /\ seen.made[last.name] = pre.liveToken
           /\ seen.madeId[last.name] = ToLower(pre.machineGuid)
    /\ \A n \in EntryNames :
           seen.made[n].exists =>
               backups[n] = Dir(seen.made[n], File(MachineIDBackup(seen.madeId[n])))
    /\ last.op \in {"reset", "restoreToken"} =>
           \A n \in EntryNames : pre.backups[n].kind = "dir" => backups[n] = pre.backups[n]

\* a snapshot taken under a soft override outlives a reset that replaced the
\* system identifier and removed the live token
C19_Witness ==
    /\ last.op = "reset" /\ last.err = "nil"
    /\ \E n \in EntryNames :
           /\ seen.made[n].exists
           /\ liveToken # seen.made[n]
           /\ ToLower(machineGuid) # seen.madeId[n]
           /\ customId.exists /\ customId.data # seen.madeId[n]
           /\ backups[n] = Dir(seen.made[n], File(MachineIDBackup(seen.madeId[n])))

(***************************************************************************)
(* Status reporting (SpecStatus)                                           *)
(***************************************************************************)

\* C21: status() is infallible and reads only.  In every state (artifact
\* missing, override file missing, empty, white space only or unreadable) it
\* returns a status record and no error; a sub-query that fails leaves its
\* field false or empty; has-override is true exactly when the override file
\* exists, can be read and has non-empty trimmed content, and the override
\* value is then that trimmed content; patched is true exactly when the
\* artifact could be read and carries the current marker in its prefix; no
\* file is modified.
C21_StatusInfallible ==
    last.op = "status" =>
        LET st == last.status
            content == pre.customId.data
            blank == content.n = 0
            readable == pre.customId.exists /\ last.fault # "readId"
        IN  /\ last.err = "nil"
            /\ st.HasCustomID = (readable /\ ~blank)
            /\ st.HasCustomID =>
                   /\ "pad" \notin DOMAIN st.CustomMachineID
                   /\ st.CustomMachineID.n = content.n
                   /\ st.CustomMachineID.up = content.up
            /\ ~st.HasCustomID => st.CustomMachineID = NoId
            /\ st.IsPatched = (pre.extJS.exists /\ last.fault # "open"
                               /\ MarkerInPrefix(pre.extJS, PatchMarker))
            /\ st.ExtensionPath = (IF pre.extJS.exists THEN "extension.js" ELSE "")
            /\ Snapshot = pre

\* the override file holds an identifier with white space around it: the
\* status reports the override with the trimmed value, on a missing artifact
C21_Witness ==
    /\ last.op = "status" /\ last.err = "nil"
    /\ "pad" \in DOMAIN customId.data
    /\ last.status.HasCustomID /\ last.status.CustomMachineID = [n |-> 1, up |-> FALSE]
    /\ ~extJS.exists /\ ~last.status.IsPatched /\ last.status.ExtensionPath = ""

(***************************************************************************)
(* Reading the halves of a snapshot (SpecRead)                             *)
(***************************************************************************)

\* the kind of an error of the registry: ErrInvalidBackupName is InvalidName;
\* ErrBackupNotFound and a wrapped os.ReadFile error on a half that does not
\* exist are NotFound; a wrapped json.Unmarshal error is a parse failure
ErrorKind(err) ==
    CASE err = "nil" -> "none"
      [] err = "ErrInvalidBackupName" -> "InvalidName"
      [] err \in {"ErrBackupNotFound", "failed to read machine id file",
                  "failed to read token file"} -> "NotFound"
      [] err \in {"failed to parse machine id file", "failed to parse token file"} ->
             "MalformedPersistedState"
      [] OTHER -> "other"

\* the half readIdentifier or readToken was asked for, as it was in the store
RequestedHalf ==
    IF last.op = "readIdentifier" THEN pre.backups[last.name].mid
    ELSE pre.backups[last.name].token
\* that half cannot be parsed
HalfUnparsable ==
    IF last.op = "readIdentifier" THEN ~RequestedHalf.data.valid
    ELSE \/ RequestedHalf.data.layout = "invalid"
         \/ \E k \in StructKeys : RequestedHalf.data.obj[k].kind \in {"num", "obj"}

\* C22 as stated: readIdentifier(name) and readToken(name) fail with InvalidName
\* for the empty name and with the NotFound kind whenever the snapshot does
\* not exist, the requested half is absent from it, or the half cannot be
\* parsed.
C22_Original ==
    last.op \in {"readIdentifier", "readToken"} =>
        /\ last.name = "" => ErrorKind(last.err) = "InvalidName"
        /\ (last.name # "" /\ (\/ pre.backups[last.name].kind # "dir"
                               \/ ~RequestedHalf.exists
                               \/ HalfUnparsable)) =>
               ErrorKind(last.err) = "NotFound"

\* C22: readIdentifier(name) and readToken(name) fail with InvalidName for the
\* empty name, with NotFound when the snapshot does not exist or the requested
\* half is absent from it, and with a parse failure, which is not of the
\* NotFound kind, when the half exists but cannot be parsed; otherwise they
\* succeed.  They change nothing.
C22_ReadHalfErrors ==
    last.op \in {"readIdentifier", "readToken"} =>
        /\ last.name = "" => ErrorKind(last.err) = "InvalidName"
        /\ (last.name # "" /\ (\/ pre.backups[last.name].kind # "dir"
                               \/ ~RequestedHalf.exists)) =>
               ErrorKind(last.err) = "NotFound"
        /\ (last.name # "" /\ pre.backups[last.name].kind = "dir"
            /\ RequestedHalf.exists) =>
               IF HalfUnparsable
               THEN ErrorKind(last.err) = "MalformedPersistedState"
               ELSE last.err = "nil"
        /\ Snapshot = pre

\* a half that exists but does not parse is read, from a snapshot whose other
\* half is absent
C22_Witness ==
    /\ last.op = "readToken" /\ last.name # ""
    /\ backups[last.name].kind = "dir"
    /\ backups[last.name].token.exists /\ ~backups[last.name].mid.exists
    /\ backups[last.name].token.data.layout = "ide"
    /\ last.err = "failed to parse token file"

(***************************************************************************)
(* The whole Patch Engine (SpecEngine)                                     *)
(***************************************************************************)

\* C23: when the target artifact file does not exist, every operation of the
\* Patch Engine (detection, apply, remove, backup, restore) fails with
\* ErrExtensionNotFound and creates or modifies no file: afterwards the
\* artifact still does not exist and the sibling backup is as it was, absent
\* or present.
C23_ExtensionNotFound ==
    (last.op \in {"detect", "apply", "remove", "backup", "restore"} /\ ~pre.extJS.exists) =>
        /\ last.err = "ErrExtensionNotFound"
        /\ last.op = "detect" =>
               (last.oldErr = "ErrExtensionNotFound" /\ ~last.patched /\ ~last.oldPatched)
        /\ ~extJS.exists
        /\ extBackup = pre.extBackup
        /\ Snapshot = pre

\* restore() is asked for while a sibling backup exists but the artifact does
\* not: the artifact is not made from the sibling
C23_Witness ==
    /\ last.op = "restore" /\ last.err = "ErrExtensionNotFound"
    /\ ~extJS.exists /\ extBackup.exists /\ extBackup = pre.extBackup

(***************************************************************************)
(* remove() without a detected marker (SpecPatch)                          *)
(***************************************************************************)

\* C24: remove() on an existing artifact in whose prefix neither the current
\* nor any recognised stale start marker is found returns success and leaves
\* the artifact and the sibling backup file, present or absent, unchanged.
C24_RemoveNoMarkerNoOp ==
    (last.op = "remove" /\ pre.extJS.exists
     /\ \A m \in StartMarkers : ~MarkerInPrefix(pre.extJS, m)) =>
        /\ last.err = "nil"
        /\ extJS = pre.extJS
        /\ extBackup = pre.extBackup

\* remove() leaves alone an artifact that holds an end marker but no start
\* marker, although a sibling backup is there to restore from
C24_Witness ==
    /\ last.op = "remove" /\ last.err = "nil"
    /\ \A m \in StartMarkers : ~MarkerInPrefix(pre.extJS, m)
    /\ \E i \in DOMAIN pre.extJS.data : pre.extJS.data[i] = PatchEndMarker
    /\ Len(pre.extJS.data) = MaxLen
    /\ pre.extBackup.exists /\ extBackup = pre.extBackup /\ extJS = pre.extJS

(***************************************************************************)
(* The platform gate of the hard reset (SpecReset)                         *)
(***************************************************************************)

\* C25: on a platform other than Windows, resetEnvironment fails with
\* ErrNotWindows for either value of skipBackupCheck and whatever else would
\* fail, before it reads the identifier, consults the snapshot store or clears
\* the session cache: it has taken no step and nothing is changed.
C25_PlatformGate ==
    (last.op = "reset" /\ goos # "windows") =>
        /\ last.err = "ErrNotWindows"
        /\ last.eff = <<>>
        /\ ~last.res.CacheCleared /\ ~last.res.MachineIDChanged
        /\ cacheDir = pre.cacheDir /\ liveToken = pre.liveToken
        /\ machineGuid = pre.machineGuid
        /\ Snapshot = pre

\* the gate stops a reset that skips the backup check on a machine whose
\* session cache holds a token
C25_Witness ==
    /\ last.op = "reset" /\ goos = "linux" /\ last.skip
    /\ last.err = "ErrNotWindows"
    /\ cacheDir /\ liveToken.exists /\ idReadable

(***************************************************************************)
(* Token updates on names that denote no snapshot (SpecToken)              *)
(***************************************************************************)

\* C26: updateToken(name, access, expiry) fails with ErrInvalidBackupName
\* when name is empty and with ErrBackupNotFound when no snapshot of that name
\* exists; in both cases no snapshot directory and no token file is created
\* or modified.
C26_UpdateTokenValidation ==
    last.op = "updateToken" =>
        /\ last.name = "" =>
               (last.err = "ErrInvalidBackupName" /\ backups = pre.backups)
        /\ (last.name # "" /\ pre.backups[last.name].kind # "dir") =>
               /\ last.err = "ErrBackupNotFound"
               /\ backups = pre.backups
               /\ backups[last.name].kind # "dir" /\ ~backups[last.name].token.exists
        /\ last.err \in {"ErrInvalidBackupName", "ErrBackupNotFound"} => Snapshot = pre

\* a token update under a name that denotes no snapshot, next to a snapshot
\* whose token an earlier update has rewritten
C26_Witness ==
    /\ last.op = "updateToken" /\ last.name = OriginalBackupName
    /\ last.err = "ErrBackupNotFound"
    /\ backups[OriginalBackupName] = NoEntry
    /\ backups["work"].token.exists /\ backups["work"].token.data.layout = "indent"
    /\ backups = pre.backups

(***************************************************************************)
(* Ownership of the files (SpecOwnership)                                  *)
(***************************************************************************)

\* C27: each operation writes only the files of its component.  The
\* operations of the Backup Registry never modify the artifact, its sibling
\* backup or the override file; those of the Patch Engine never modify the
\* snapshot store, the override file or the live token; softReset,
\* restoreOriginal and status never modify the snapshot store or the system
\* identifier; resetEnvironment never modifies the snapshot store, the
\* override file, the artifact or its backup.  The targets more than one
\* component touches are the session cache, which the two controllers clear
\* as a whole or leave alone, and the live token, which only restoreToken
\* writes.
C27_OwnershipFrame ==
    LET registry == {"create", "createIdOnly", "ensureOriginal", "delete", "restoreToken",
                     "list", "readIdentifier", "readToken", "updateToken"}
        engine == {"detect", "apply", "remove", "backup", "restore"}
        soft == {"softReset", "restoreOriginal", "status"}
        hard == {"reset"}
        artifactSame == extJS = pre.extJS /\ extBackup = pre.extBackup
        storeSame == backups = pre.backups /\ rootDir = pre.rootDir
        overrideSame == customId = pre.customId
        cacheSame == cacheDir = pre.cacheDir /\ liveToken = pre.liveToken
    IN  /\ last.op \in registry =>
               (artifactSame /\ overrideSame /\ machineGuid = pre.machineGuid)
        /\ last.op \in engine =>
               (storeSame /\ overrideSame /\ cacheSame /\ machineGuid = pre.machineGuid)
        /\ last.op \in soft => (storeSame /\ machineGuid = pre.machineGuid)
        /\ last.op \in hard => (storeSame /\ overrideSame /\ artifactSame)
        /\ ~cacheSame => last.op \in {"reset", "softReset", "restoreOriginal", "restoreToken"}
        /\ last.op \in {"reset", "softReset", "restoreOriginal"} =>
               (cacheSame \/ (~cacheDir /\ liveToken = NoToken))
        /\ (liveToken.exists /\ liveToken # pre.liveToken) => last.op = "restoreToken"

\* a soft reset next to existing snapshots: it writes the override, patches
\* the artifact through the Patch Engine and clears the session cache, and
\* the snapshot store is as before
C27_Witness ==
    /\ last.op = "softReset" /\ last.err = "nil"
    /\ customId # pre.customId /\ extJS # pre.extJS
    /\ pre.cacheDir /\ pre.liveToken.exists /\ ~cacheDir
    /\ backups["work"].kind = "dir" /\ backups["work"].token.exists
    /\ backups = pre.backups

(***************************************************************************)
(* Two invocations of apply() at once (SpecRace)                           *)
(***************************************************************************)

\* C28: nothing excludes a second invocation of apply() between the marker
\* check, the read and the write of a first one.  The artifact holds the
\* payload at most once per completed write; it holds the payload twice only
\* when both invocations passed the already-patched check before either had
\* written, which the steps allow; the sibling backup never holds the
\* payload; and once an invocation has written, the artifact is detected as
\* patched.
C28_RaceDoublesPayload ==
    /\ Count(extJS.data, PatchMarker) <= Writes
    /\ Count(extJS.data, PatchMarker) >= 2 => \A p \in Procs : procs[p].passed
    /\ \A p \in Procs : procs[p].passed => procs[p].writesSeen = 0
    /\ Count(extBackup.data, PatchMarker) = 0
    /\ Writes > 0 => PatchedCurrent(extJS)

\* both invocations passed the check on an Unpatched, non-empty artifact,
\* both returned without error, and the artifact holds the payload twice
C28_Witness ==
    /\ \A p \in Procs : procs[p].pc = "done" /\ procs[p].err = "nil" /\ procs[p].passed
    /\ Count(extJS.data, PatchMarker) = 2
    /\ Count(extJS.data, PatchEndMarker) = 2
    /\ Len(extJS.data) > 2 * Len(patchCode)
    /\ extJS.data = patchCode \o patchCode \o extBackup.data

(***************************************************************************)
(* Properties of patch-state detection.                                    *)
(***************************************************************************)
\* a start marker of kind m lies wholly inside the first PrefixLen bytes of s
WhollyInside(s, m) ==
    \E i \in DOMAIN s : s[i] = m /\ Offset(s, i) + MarkerLen <= PrefixLen

\* every start marker of kind m in s begins beyond the prefix or straddles its end
BeyondOrStraddling(s, m) ==
    \A i \in DOMAIN s : s[i] = m => Offset(s, i) + MarkerLen > PrefixLen

\* C29: detection depends only on the first 1024 bytes of the artifact: any
\* artifact that agrees with the inspected one on that prefix gets the same
\* classification (current and stale), a current start marker wholly inside
\* the prefix is detected, a stale start marker wholly inside the prefix is
\* detected unless a current one is inside too, and a start marker that
\* begins beyond the prefix or straddles its end is not detected.
C29_PrefixDetection ==
    (last.op = "detect" /\ last.err = "nil") =>
        LET s == pre.extJS.data
            read == ReadPrefix(s)
            agreeing == {t \in SeqsUpTo(EngineChunks, MaxLen) : ReadPrefix(t) = read}
        IN  /\ \A t \in agreeing :
                   /\ IsPatched(PatchFS(File(t), pre.extBackup)).val = last.patched
                   /\ IsOldPatched(PatchFS(File(t), pre.extBackup)).val = last.oldPatched
            /\ WhollyInside(s, PatchMarker) => last.patched
            /\ BeyondOrStraddling(s, PatchMarker) => ~last.patched
            /\ (WhollyInside(s, OldPatchMarkerV2) /\ ~WhollyInside(s, PatchMarker))
                   => last.oldPatched
            /\ BeyondOrStraddling(s, OldPatchMarkerV2) => ~last.oldPatched

\* detection has run on an artifact whose current start marker straddles the
\* end of the prefix, and reported it unmarked
C29_Witness ==
    /\ last.op = "detect" /\ last.err = "nil"
    /\ \E i \in DOMAIN pre.extJS.data :
           /\ pre.extJS.data[i] = PatchMarker
           /\ Offset(pre.extJS.data, i) < PrefixLen
           /\ Offset(pre.extJS.data, i) + MarkerLen > PrefixLen
    /\ ~last.patched /\ ~last.oldPatched

(***************************************************************************)
(* Properties of usage queries.                                            *)
(***************************************************************************)
\* the token is nil or lacks an access token or a profile reference
InvalidToken(token) == token.nil \/ token.AccessToken = "" \/ token.ProfileArn = ""

\* C30: for a token that is nil or has an empty access token or an empty
\* profile reference, GetUsageLimitsSafe returns a non-nil usage record with
\* an empty subscription title, zero limit, usage and balance and a false
\* low-balance flag; for no token at all does it raise an unhandled fault or
\* return nil.
C30_GracefulDegradation ==
    last.op = "usage" =>
        /\ ~last.usage.panic
        /\ ~last.usage.nil
        /\ InvalidToken(last.arg) =>
               /\ last.usage.info.SubscriptionTitle = ""
               /\ last.usage.info.UsageLimit = 0
               /\ last.usage.info.CurrentUsage = 0
               /\ last.usage.info.Balance = 0
               /\ last.usage.info.IsLowBalance = FALSE

\* the query ran on a nil token while the service would have answered with
\* a titled, non-zero usage, and returned the empty record
C30_Witness ==
    /\ last.op = "usage"
    /\ last.arg.nil
    /\ last.api.err = "nil" /\ last.api.title # ""
    /\ CalculateBalance(last.api).UsageLimit > 0
    /\ ~last.usage.nil /\ ~last.usage.panic
    /\ last.usage.info = EmptyUsageInfo

(***************************************************************************)
(* Properties of the balance calculation.                                  *)
(***************************************************************************)
RECURSIVE ExpectedLimit(_)
\* expectedUsageLimit of the breakdown list, one breakdown after the other
ExpectedLimit(list) ==
    IF list = <<>> THEN 0
    ELSE LET b == list[Len(list)]
         IN  ExpectedLimit(SubSeq(list, 1, Len(list) - 1)) + b.limit
             + (IF b.trial # <<>> THEN b.trial[1].limit ELSE 0)
             + (IF b.bonuses # <<>> THEN b.bonuses[1].limit ELSE 0)

RECURSIVE ExpectedUsage(_)
\* expectedCurrentUsage of the breakdown list
ExpectedUsage(list) ==
    IF list = <<>> THEN 0
    ELSE LET b == list[Len(list)]
         IN  ExpectedUsage(SubSeq(list, 1, Len(list) - 1)) + b.usage
             + (IF b.trial # <<>> THEN b.trial[1].usage ELSE 0)
             + (IF b.bonuses # <<>> THEN b.bonuses[1].usage ELSE 0)

C32_LowBalance ==
    last.op = "balance" =>
        LET L == last.usage.info.UsageLimit
            U == last.usage.info.CurrentUsage
        IN  /\ L = 0 => ~last.usage.info.IsLowBalance
            /\ L > 0 => (last.usage.info.IsLowBalance <=> (1000 * (L - U)) \div L < 200)

\* a balance that is positive but below a fifth of the limit was flagged
C32_Witness ==
    /\ last.op = "balance"
    /\ last.usage.info.Balance > 0
    /\ last.usage.info.UsageLimit > 5 * last.usage.info.Balance
    /\ last.usage.info.IsLowBalance

(***************************************************************************)
(* Properties of the sibling backup.                                       *)
(***************************************************************************)
\* d holds a start marker of some version somewhere
HasMarker(d) == \E i \in DOMAIN d : d[i] \in StartMarkers

\* C33 as claimed: whatever sequence of apply(), remove(), softReset() and
\* restoreOriginal() ran on an artifact that was Unpatched with content C and
\* had no sibling backup, the artifact is C or the current payload followed
\* by C with at most one start marker, and a sibling backup that exists holds
\* exactly C and no patch marker.
C33_Original ==
    LET C == seen.artifact
    IN  /\ extJS.data = C \/ extJS.data = patchCode \o C
        /\ Cardinality({i \in DOMAIN extJS.data : extJS.data[i] \in StartMarkers}) <= 1
        /\ extBackup.exists => extBackup.data = C /\ ~HasMarker(extBackup.data)

\* C33: after any such sequence the artifact is C or the current payload
\* followed by C, and a sibling backup that exists holds exactly C; when C
\* holds no start marker at all (also none beyond the detection prefix), the
\* artifact has at most one start marker and the backup none.
C33_BackupPurity ==
    LET C == seen.artifact
    IN  /\ extJS.exists
        /\ extJS.data = C \/ extJS.data = patchCode \o C
        /\ extBackup.exists => extBackup.data = C
        /\ ~HasMarker(C) =>
               /\ Cardinality({i \in DOMAIN extJS.data : extJS.data[i] \in StartMarkers}) <= 1
               /\ extBackup.exists => ~HasMarker(extBackup.data)

\* apply() and then remove() have run on a marker-free artifact: the artifact
\* is back to C and the sibling backup is still there
C33_Witness ==
    /\ last.op = "remove" /\ last.err = "nil"
    /\ prev.op = "apply" /\ prev.err = "nil"
    /\ seen.artifact # <<>> /\ ~HasMarker(seen.artifact)
    /\ pre.extJS.data = patchCode \o seen.artifact
    /\ extJS.data = seen.artifact
    /\ extBackup.exists /\ extBackup.data = seen.artifact

(***************************************************************************)
(* Properties of the live token across resets.                             *)
(***************************************************************************)
\* a successful softReset(), restoreOriginal() or resetEnvironment()
ResetSucceeded == last.op \in {"softReset", "restoreOriginal", "reset"} /\ last.err = "nil"

\* C34 as claimed: the live token exists only inside the cache directory,
\* after a successful softReset(), restoreOriginal() or resetEnvironment() it
\* does not exist, create(name) fails with NoTokenToBackup whenever the live
\* token does not exist, and only restoreToken brings the live token back.
C34_Original ==
    /\ liveToken.exists => cacheDir
    /\ ResetSucceeded => ~liveToken.exists
    /\ (last.op = "create" /\ ~pre.liveToken.exists) => last.err = "ErrNoTokenToBackup"
    /\ (~pre.liveToken.exists /\ liveToken.exists) => last.op = "restoreToken"

\* C34: the live token exists only inside the cache directory; after a
\* successful softReset(), restoreOriginal() or resetEnvironment() it does not
\* exist; while it does not exist create(name) fails and leaves the store as
\* it was: with InvalidName for the empty name, AlreadyExists for a taken
\* name, and NoTokenToBackup for every other name whose directory could be
\* made; only restoreToken brings the live token back.
C34_NoLiveTokenAfterReset ==
    /\ liveToken.exists => cacheDir
    /\ ResetSucceeded => ~liveToken.exists /\ ~cacheDir
    /\ (last.op = "create" /\ ~pre.liveToken.exists) =>
           /\ last.err # "nil"
           /\ backups = pre.backups
           /\ last.name = "" => last.err = "ErrInvalidBackupName"
           /\ BackupExists(pre.backups, last.name) => last.err = "ErrBackupExists"
           /\ (last.name # "" /\ pre.backups[last.name].kind = "none")
                  => last.err = "ErrNoTokenToBackup"
    /\ (~pre.liveToken.exists /\ liveToken.exists) => last.op = "restoreToken"

\* create(name) for a free name has just failed with NoTokenToBackup in the
\* state a successful reset left behind
C34_Witness ==
    /\ last.op = "create" /\ last.name = "work" /\ last.fault = "none"
    /\ last.err = "ErrNoTokenToBackup"
    /\ ~pre.liveToken.exists /\ ~pre.cacheDir
    /\ pre.backups["work"].kind = "none"
    /\ backups = pre.backups

(***************************************************************************)
(* Properties of consecutive hard resets.                                  *)
(***************************************************************************)
\* the snapshot of that name holds a readable identifier half equal to id
Captures(b, name, id) ==
    /\ name \in EntryNames
    /\ b[name].kind = "dir"
    /\ b[name].mid.exists
    /\ b[name].mid.data.valid
    /\ EqualFold(b[name].mid.data.machineId, id)

\* C35: a successful resetEnvironment that wrote an identifier no snapshot
\* held leaves the machine with an identifier that is not backed up; while
\* the current identifier is not backed up, resetEnvironment(false) fails and
\* writes nothing, with BackupRequired whenever the snapshot store could be
\* listed; and the identifier becomes backed up only by a successful create
\* that captures it (or by a reset that happens to generate an identifier a
\* snapshot already holds).
C35_FreshIdNotBackedUp ==
    /\ (last.op = "reset" /\ last.err = "nil"
            /\ ~SnapshotMatches(pre.backups, last.res.NewMachineID)) =>
           /\ machineGuid = last.res.NewMachineID
           /\ ~SnapshotMatches(backups, machineGuid)
    /\ (last.op = "reset" /\ ~last.skip /\ ~SnapshotMatches(pre.backups, pre.machineGuid)) =>
           /\ last.err # "nil"
           /\ machineGuid = pre.machineGuid
           /\ ~StoreWriteAttempted
           /\ last.fault # "list" => last.err = "ErrBackupRequired"
    /\ (~SnapshotMatches(pre.backups, pre.machineGuid) /\ SnapshotMatches(backups, machineGuid)) =>
           \/ /\ last.op \in {"create", "createIdOnly", "ensureOriginal"}
              /\ last.err = "nil"
              /\ Captures(backups, last.name, machineGuid)
           \/ last.op = "reset" /\ last.err = "nil"

\* resetEnvironment(false) has just failed with BackupRequired on a machine
\* whose identifier an earlier reset wrote and whose original snapshot still
\* holds the identifier from before
C35_Witness ==
    /\ last.op = "reset" /\ ~last.skip /\ last.err = "ErrBackupRequired"
    /\ pre.machineGuid.n # 1
    /\ Captures(backups, OriginalBackupName, [n |-> 1, up |-> FALSE])
    /\ backups["work"].kind = "none"
    /\ machineGuid = pre.machineGuid

(***************************************************************************)
(* Properties of the state a soft reset leaves behind.                     *)
(***************************************************************************)
\* what status() reports in the current state when nothing fails
StatusNow == GetSoftResetStatus(customId, PatchFS(extJS, extBackup), "none").status

\* softReset() has returned without error
SoftResetSucceeded == last.op = "softReset" /\ last.err = "nil"

\* C36 as claimed: after softReset() returned without error the artifact is
\* PatchedCurrent and holds a single payload, the override holds the new
\* identifier of the result, the session cache directory does not exist, and
\* status() reports patched, has-override and the new identifier.
C36_Original ==
    SoftResetSucceeded =>
        /\ PatchedCurrent(extJS)
        /\ Count(extJS.data, PatchMarker) = 1
        /\ customId = File(last.soft.NewMachineID)
        /\ ~cacheDir
        /\ StatusNow.IsPatched /\ StatusNow.HasCustomID
        /\ StatusNow.CustomMachineID = last.soft.NewMachineID

\* C36: after softReset() returned without error the artifact is
\* PatchedCurrent, the override holds the new identifier of the result, the
\* session cache directory and the live token do not exist, and status()
\* reports patched, has-override and the new identifier.  An artifact that
\* was PatchedCurrent is left as it was, any other gets one payload put in
\* front; the artifact holds a single current start marker when neither the
\* artifact nor its sibling backup held one before.
C36_AfterSoftReset ==
    /\ SoftResetSucceeded =>
           /\ PatchedCurrent(extJS)
           /\ customId = File(last.soft.NewMachineID)
           /\ ~cacheDir /\ ~liveToken.exists
           /\ StatusNow.IsPatched /\ StatusNow.HasCustomID
           /\ StatusNow.CustomMachineID = last.soft.NewMachineID
           /\ PatchedCurrent(pre.extJS) => extJS = pre.extJS
           /\ ~PatchedCurrent(pre.extJS) =>
                  /\ SubSeq(extJS.data, 1, Len(patchCode)) = patchCode
                  /\ Count(extJS.data, PatchMarker) >= 1
           /\ (Count(pre.extJS.data, PatchMarker) = 0
                   /\ Count(pre.extBackup.data, PatchMarker) = 0)
                  => Count(extJS.data, PatchMarker) = 1
    /\ (last.op = "status" /\ last.fault = "none") => last.status = StatusNow

\* status() has run on the state a successful soft reset left behind (only
\* a soft reset writes the identifier MaxIds) and reports the patch and the
\* new identifier
C36_Witness ==
    /\ last.op = "status" /\ last.fault = "none"
    /\ last.status.IsPatched /\ last.status.HasCustomID
    /\ last.status.CustomMachineID = [n |-> MaxIds, up |-> FALSE]
    /\ customId = File([n |-> MaxIds, up |-> FALSE])
    /\ ~cacheDir
    /\ extJS.data = patchCode \o <<"x">>
    /\ extBackup = File(<<"x">>)

(***************************************************************************)
(* Properties of consecutive soft resets.                                  *)
(***************************************************************************)
\* one call and the call right after it
ChainStep ==
    /\ (last.op = "softReset" /\ last.fault \notin {"mkdir", "write"}
            /\ last'.op = "softReset") =>
           last'.soft.OldMachineID = last.soft.NewMachineID
    /\ (last.op = "restoreOriginal" /\ last.fault # "rmId" /\ last'.op = "softReset") =>
           last'.soft.OldMachineID = NoId

\* C37: of two consecutive softReset() calls the second reports as previous
\* identifier the new identifier of the first, whether the first succeeded or
\* failed at the patch or the cache step (it had written the override by
\* then); a softReset() right after a restoreOriginal() that removed the
\* override reports an empty previous identifier.
C37_SoftResetChaining == [][ChainStep]_vars

\* a second softReset() has reported the identifier of the first as previous
\* although the first, like the second, failed at the patch step for want of
\* an artifact
C37_Witness ==
    /\ last.op = "softReset" /\ last.fault = "none"
    /\ last.err = "ErrExtensionNotFound"
    /\ ~extJS.exists
    /\ last.soft.OldMachineID = [n |-> 1, up |-> FALSE]
    /\ last.soft.NewMachineID = [n |-> MaxIds, up |-> FALSE]
    /\ pre.customId = File([n |-> 1, up |-> FALSE])
    /\ customId = File([n |-> MaxIds, up |-> FALSE])

\* one call and the call right after it, whatever became of the first
ChainStepAny ==
    /\ (last.op = "softReset" /\ last'.op = "softReset") =>
           last'.soft.OldMachineID = last.soft.NewMachineID
    /\ (last.op = "restoreOriginal" /\ last'.op = "softReset") =>
           last'.soft.OldMachineID = NoId

\* C37 as stated, for every first call: refuted by a first softReset() that
\* failed while writing the override, whose new identifier the second call
\* does not report.
C37_Original == [][ChainStepAny]_vars

(***************************************************************************)
(* Properties of the paths snapshot names resolve to.                      *)
(***************************************************************************)
\* the snapshots a step removed
Removed == {n \in EntryNames : pre.backups[n].kind = "dir" /\ backups[n].kind # "dir"}

\* C38: a delete(name) that removed something removed a direct child of the
\* store root: at most one snapshot is gone and the store root is still there.
\* Refuted by delete("."), delete("work/..") (the store root) and delete("..")
\* (the executable's directory).
C38_DeleteConfined ==
    (last.op = "delete" /\ last.err = "nil") =>
        /\ IsStoreChild(last.path)
        /\ Cardinality(Removed) <= 1
        /\ rootDir = pre.rootDir

(***************************************************************************)
(* Properties of the reserved snapshot as a cover for the forced reset.    *)
(***************************************************************************)
\* the backed-up check, its listing succeeding
BackedUpNow == IsCurrentMachineIDBackedUp(goos, machineGuid, idReadable, backups, TRUE).val

\* the reserved snapshot holds the current raw identifier
OriginalCovers ==
    /\ BackupExists(backups, OriginalBackupName)
    /\ ReadBackupMachineID(backups, OriginalBackupName).err = "nil"
    /\ EqualFold(ReadBackupMachineID(backups, OriginalBackupName).mid.machineId,
                 GetRawMachineId(goos, machineGuid, idReadable).id)

CoverStep ==
    /\ (last'.op = "ensureOriginal" /\ last'.created) => OriginalCovers'
    /\ (OriginalCovers /\ machineGuid' = machineGuid
            /\ BackupExists(backups', OriginalBackupName)) => OriginalCovers'
    /\ OriginalCovers' => BackedUpNow'
    /\ (OriginalCovers /\ last'.op = "reset" /\ ~last'.skip) =>
           last'.err # "ErrBackupRequired"

\* C39: once ensureOriginalSnapshot() has reported "created" the reserved
\* snapshot holds the current raw identifier, and keeps holding it over every
\* step that neither changes the raw identifier nor deletes the snapshot; while
\* it does the backed-up check returns true and resetEnvironment(false) does
\* not fail with ErrBackupRequired.
C39_OriginalCoversReset == [][CoverStep]_vars

\* a resetEnvironment(false) went past the backed-up check with no snapshot
\* but the reserved one, which ensureOriginalSnapshot() had made of the
\* identifier then current
C39_Witness ==
    /\ last.op = "reset" /\ ~last.skip /\ last.err = "nil"
    /\ pre.backups[OriginalBackupName].kind = "dir"
    /\ pre.backups["work"].kind = "none"
    /\ seen.ran
    /\ seen.madeId[OriginalBackupName] = pre.machineGuid
    /\ machineGuid # pre.machineGuid

(***************************************************************************)
(* Properties of the backed-up check over damaged snapshots.               *)
(***************************************************************************)
\* a snapshot's identifier half is missing or does not parse
Damaged(b, n) == b[n].kind = "dir" /\ (~b[n].mid.exists \/ ~b[n].mid.data.valid)

\* some snapshot's readable identifier half equals the identifier
ReadableMatch(b, id) ==
    \E n \in EntryNames :
        /\ b[n].kind = "dir" /\ ~Damaged(b, n)
        /\ EqualFold(b[n].mid.data.machineId, id)

\* C40: whenever the raw identifier can be read and the store listed, the
\* backed-up check returns no error, damaged snapshots or not, and returns
\* true exactly when a snapshot with a readable identifier half holds the raw
\* identifier up to case, in whatever order the snapshots are listed; a
\* resetEnvironment(false) on Windows fails with ErrBackupRequired exactly
\* when there is no such snapshot.
C40_DamagedTolerated ==
    LET cur == GetRawMachineId(goos, machineGuid, idReadable)
        chk == IsCurrentMachineIDBackedUp(goos, machineGuid, idReadable, backups, TRUE)
        was == GetRawMachineId(goos, pre.machineGuid, idReadable)
    IN  /\ cur.err = "nil" =>
               /\ chk.err = "nil"
               /\ chk.val = ReadableMatch(backups, cur.id)
               /\ \A l \in Listings(backups) : BackedUpIn(backups, l, cur.id) = chk.val
        /\ (last.op = "reset" /\ ~last.skip /\ last.fault # "list" /\ goos = "windows"
                /\ was.err = "nil") =>
               ((last.err = "ErrBackupRequired") = ~ReadableMatch(pre.backups, was.id))

\* a resetEnvironment(false) passed the check on a store holding a damaged
\* snapshot next to one whose identifier half matched up to case
C40_Witness ==
    /\ last.op = "reset" /\ ~last.skip /\ last.err = "nil"
    /\ Damaged(pre.backups, "work")
    /\ ~Damaged(pre.backups, OriginalBackupName)
    /\ pre.backups[OriginalBackupName].kind = "dir"
    /\ pre.machineGuid.up
    /\ EqualFold(pre.backups[OriginalBackupName].mid.data.machineId, pre.machineGuid)

====
